---- MODULE Spec2Model ----
(***************************************************************************)
(* Session/token lifecycle of the galera server: signup, login, refresh,   *)
(* logout and the bearer auth middleware, over the relational store.       *)
(*                                                                         *)
(* A request handler is a sequence of store calls; every store call is one *)
(* atomic step (a statement, or a transaction), and the handler's position *)
(* between two store calls is the state pc[p] of the request slot p.       *)
(***************************************************************************)
EXTENDS Integers, Sequences, FiniteSets, TLC

(* ------------------------------ bounds --------------------------------- *)

\* how many times the wall clock advances
MaxTicks == 2
\* how many bearer tokens are minted (Claims::new, Claims::from_existing)
\* when requests are served one at a time ...
MaxMints == 2
\* ... and when they interleave
MaxMintsConc == 3
\* how many user rows are ever inserted
MaxUsers == 2
\* how many albums and how many share links are created
MaxAlbums == 1
MaxLinks == 2
\* how deep the directory tree under a user's root is, how deep it is when
\* two scans run at once, and how many scans one task runs in a row
MaxDepth == 2
MaxDepthConc == 1
MaxRuns == 2
\* the parent links the resolver is followed for, and the depth of the
\* deepest directory chain that was scanned
MaxFollow == 130
MaxChain == 130
\* the longest username and the longest password a signup is tried with
MaxUsernameLen == 31
MaxPasswordLen == 129
\* the longest text after the prefix of a URL that is normalised
MaxPathLen == 4
\* the album_media rows from which on no further request to add media is
\* made, and the longest list of one request
MaxAlbumMedia == 3
MaxListLen == 2
\* the OIDC logins started
MaxLogins == 2

(* ------------------------- program constants --------------------------- *)

\* Claims::new: "15 mins in seconds"
AccessTtl == 900
\* NewAuthRefreshToken::new: Duration::hours(1)
RefreshTtl == 3600
\* jsonwebtoken's Validation::new: leeway of 60 seconds on exp
Leeway == 60
\* the seconds a pending OIDC login stays valid
LOGIN_STATE_TTL_SECS == 600

\* request slots: two requests can be in flight at once
Procs == {"p1", "p2"}

\* the clock advances by one second or by the lifetime of a token
TickSteps == {1, AccessTtl, RefreshTtl}

(* ------------------------------ strings -------------------------------- *)

\* a string is a sequence of characters
StrAlice == <<"a", "l">>
StrBob == <<"b", "o">>
StrAliceMail == <<"a", "@", "x">>
StrBobMail == <<"b", "@", "x">>
StrPw1 == <<"p", "1">>
StrPw2 == <<"p", "2">>

\* str::contains(char)
Contains(s, ch) == \E i \in 1..Len(s) : s[i] = ch

\* the signups a client may send
Signups ==
  { [username |-> StrAlice, email |-> StrAliceMail, password |-> StrPw1],
    [username |-> StrBob, email |-> StrBobMail, password |-> StrPw2] }

Identifiers == {StrAlice, StrBob, StrAliceMail, StrBobMail}
Passwords == {StrPw1, StrPw2}

\* sha2::Sha512 of the password, formatted {:X}: one-way, injective on the
\* passwords of the model, never the password itself
hash_password(pw) == <<"SHA512">> \o pw

VARIABLES
  now,                 \* Utc::now().timestamp()
  ticks,               \* how often the clock has advanced
  user,                \* table user
  auth_refresh_token,  \* table auth_refresh_token
  auth_access_token,   \* table auth_access_token
  nextId,              \* AUTO_INCREMENT of the three tables
  mints,               \* number of tokens minted so far (Uuid::new_v4 source)
  issued,              \* encoded bearer tokens the server has handed out
  pc,                  \* position of each request slot
  req,                 \* locals of the handler running in each slot
  last,                \* the response just sent (of the step just taken, if it answered a request)
  superseded,          \* access-token values issued for a refresh token before a successful Refresh of it
  loggedOut,           \* refresh-token values whose session a Logout has deleted
  raced,               \* refresh-token values on which two Refresh calls have been in flight at once
  album,               \* table album
  album_share_link,    \* table album_share_link
  dirs,                \* the directories under the gallery root of the user, as paths
  files,               \* the files in those directories
  folder,              \* table folder
  media,               \* table media
  scan,                \* locals and position of each scan task
  walk,                \* locals and position of the ancestor-chain resolver
  album_media,         \* table album_media
  login_states,        \* the pending OIDC logins, by CSRF state
  callbacks,           \* per CSRF state: the callbacks that took it, and that passed
  call                 \* the last call of a pure function: its input and result

vars == <<now, ticks, user, auth_refresh_token, auth_access_token, nextId, mints,
          issued, pc, req, last, superseded, loggedOut, raced,
          album, album_share_link, dirs, files, folder, media, scan,
          walk, album_media, login_states, callbacks, call>>

\* the state of the handlers that neither the session handlers, nor the
\* share-link check, nor the scanner touch
lateVars == <<walk, album_media, login_states, callbacks, call>>

\* what the scanner reads and writes
scanVars == <<dirs, files, folder, media, scan>>

\* the tables no session handler touches
nonSessionVars == <<album, album_share_link, scanVars, lateVars>>

\* what the scanner leaves alone
sessionVars == <<now, ticks, user, auth_refresh_token, auth_access_token, nextId,
                 mints, issued, pc, req, last, superseded, loggedOut, raced,
                 album, album_share_link>>

(* ------------------------------ Claims --------------------------------- *)

NoClaims == [exp |-> -1, iat |-> -1, user_id |-> 0, refresh_token |-> 0, access_token |-> 0]

\* Uuid::new_v4(): the n-th mint draws two values no earlier mint has drawn
RandRefresh(n) == 2 * n + 1
RandAccess(n) == 2 * n + 2

\* Claims::new(user_id), the n-th mint, at time t
ClaimsNew(user_id, n, t) ==
  [exp |-> t + AccessTtl, iat |-> t, user_id |-> user_id,
   refresh_token |-> RandRefresh(n), access_token |-> RandAccess(n)]

\* Claims::from_existing(token)
from_existing(token, n, t) ==
  [ClaimsNew(token.user_id, n, t) EXCEPT !.refresh_token = token.refresh_token]

\* Claims::encode: the JWT is the payload with an HS512 signature of the secret
encode(claims) == [wellformed |-> TRUE, sig |-> "HS512-secret", claims |-> claims]

NoToken == [wellformed |-> FALSE, sig |-> "none", claims |-> NoClaims]

\* a token not produced by the server: the payload of t with a later exp,
\* signed without the secret
Forge(t) == [t EXCEPT !.sig = "HS512-other", !.claims.exp = t.claims.exp + RefreshTtl]

\* what a client can put in a request
Presentable == issued \cup {Forge(t) : t \in issued} \cup {NoToken}

\* jsonwebtoken::decode with Validation::new(HS512): the structure, then the
\* signature, then exp with the leeway
decode(tok, t) ==
  IF ~tok.wellformed THEN [kind |-> "InvalidToken", claims |-> NoClaims]
  ELSE IF tok.sig # "HS512-secret" THEN [kind |-> "InvalidSignature", claims |-> NoClaims]
  ELSE IF tok.claims.exp < t - Leeway THEN [kind |-> "ExpiredSignature", claims |-> NoClaims]
  ELSE [kind |-> "Ok", claims |-> tok.claims]

\* ClaimsEncoded::decode_without_validation: validate_exp = false
decode_without_validation(tok) ==
  IF ~tok.wellformed THEN [kind |-> "InvalidToken", claims |-> NoClaims]
  ELSE IF tok.sig # "HS512-secret" THEN [kind |-> "InvalidSignature", claims |-> NoClaims]
  ELSE [kind |-> "Ok", claims |-> tok.claims]

\* an expiry test against the time of issue
is_expired_since_issue(claims, t) == claims.iat < t

\* Claims::is_expired
is_expired(claims, t) == claims.exp < t

(* ------------------------------ store ---------------------------------- *)

NoRow == [id |-> 0, user_id |-> 0, refresh_token |-> 0, expiration_time |-> -1]

\* db::users::get_user_username(user_id).is_some()
get_user_username(user_id) == \E u \in user : u.id = user_id

\* db::users::get_user_by_id(user_id).is_some()
get_user_by_id(user_id) == \E u \in user : u.id = user_id

\* db::users::is_user_unique
is_user_unique(new_user) ==
  ~\E u \in user : u.username = new_user.username \/ u.email = new_user.email

\* db::users::check_user_login_username / check_user_login_email: the ids
\* of the rows that match (first() takes one of them)
check_user_login_username(username, password) ==
  {u.id : u \in {v \in user : v.username = username /\ v.password = password}}

check_user_login_email(email, password) ==
  {u.id : u \in {v \in user : v.email = email /\ v.password = password}}

\* a test that takes every identifier for a username
is_email_never(username_or_email) == FALSE

\* UserLogin::is_email
is_email(username_or_email) == Contains(username_or_email, "@")

\* UserLogin::check
check(username_or_email, password) ==
  IF is_email(username_or_email)
  THEN check_user_login_email(username_or_email, password)
  ELSE check_user_login_username(username_or_email, password)

\* rows of auth_refresh_token with this token value
RefreshRows(refresh_token) == {r \in auth_refresh_token : r.refresh_token = refresh_token}

\* rows of auth_access_token under this refresh-token id
AccessRows(refresh_token_id) == {a \in auth_access_token : a.refresh_token_id = refresh_token_id}

\* foreign keys of the schema (joinable! in schema.rs): a child row is
\* accepted by the store only while its parent row exists
FkAccessToRefresh(refresh_token_id) == \E r \in auth_refresh_token : r.id = refresh_token_id
FkRefreshToUser(user_id) == \E u \in user : u.id = user_id


\* AUTO_INCREMENT: the id the next insert into a table gets
NextRow(table) == nextId[table]
Bump(table) == [nextId EXCEPT ![table] = @ + 1]

\* NewAuthRefreshToken::new(user_id, refresh_token) as the row the store keeps
NewAuthRefreshToken(id, user_id, refresh_token, t) ==
  [id |-> id, user_id |-> user_id, refresh_token |-> refresh_token,
   expiration_time |-> t + RefreshTtl]

\* NewAuthAccessToken::new(refresh_token_id, access_token) as the row the store keeps
NewAuthAccessToken(id, refresh_token_id, access_token, t) ==
  [id |-> id, refresh_token_id |-> refresh_token_id, access_token |-> access_token,
   expiration_time |-> t + AccessTtl]

\* a transaction that keeps the statements' effect whatever the closure returned
transaction_without_rollback(before, after, committed) == after

\* connection.transaction(|c| ...): the statements' effect if the closure
\* returned Ok, the state before them if it returned Err
transaction(before, after, committed) == IF committed THEN after ELSE before

\* db::tokens::insert_session_tokens: both inserts in one transaction.
\* out names the statement the store fails, if any.
insert_session_tokens(user_id, refresh_token, access_token, t, out) ==
  LET s0 == [rt |-> auth_refresh_token, at |-> auth_access_token]
      first_ok == out # "err_first" /\ FkRefreshToUser(user_id)
      rt_row == NewAuthRefreshToken(NextRow("rt"), user_id, refresh_token, t)
      s1 == IF first_ok THEN [s0 EXCEPT !.rt = @ \cup {rt_row}] ELSE s0
      second_ok == first_ok /\ out # "err_second"
      at_row == NewAuthAccessToken(NextRow("at"), rt_row.id, access_token, t)
      s2 == IF second_ok THEN [s1 EXCEPT !.at = @ \cup {at_row}] ELSE s1
  IN  [ok |-> second_ok, db |-> transaction(s0, s2, second_ok),
       ids |-> [nextId EXCEPT !["rt"] = @ + 1, !["at"] = IF first_ok THEN @ + 1 ELSE @]]

\* a logout that deletes the access tokens and leaves the refresh token
keep_refresh_row(refresh_token, out) ==
  LET s0 == [rt |-> auth_refresh_token, at |-> auth_access_token]
      ids == {r.id : r \in RefreshRows(refresh_token)}
  IN  IF ids = {} THEN [result |-> "false", db |-> s0]
      ELSE [result |-> "true",
            db |-> [s0 EXCEPT !.at = {a \in s0.at : a.refresh_token_id \notin ids}]]

\* db::tokens::delete_session_by_refresh_token: one transaction. first()
\* takes one matching row; the values are fresh, so at most one row matches
delete_session_by_refresh_token(refresh_token, out) ==
  LET s0 == [rt |-> auth_refresh_token, at |-> auth_access_token]
      found == RefreshRows(refresh_token)
      ids == {r.id : r \in found}
      s2 == [rt |-> {r \in s0.rt : r.id \notin ids},
             at |-> {a \in s0.at : a.refresh_token_id \notin ids}]
  IN  IF out # "ok" THEN [result |-> "Err", db |-> s0]
      ELSE IF found = {} THEN [result |-> "false", db |-> s0]
      ELSE [result |-> "true", db |-> transaction(s0, s2, TRUE)]

\* a delete statement that removes no row
delete_no_access_tokens(refresh_token_id, out) == auth_access_token

\* db::tokens::delete_obsolete_access_tokens
delete_obsolete_access_tokens(refresh_token_id, out) ==
  IF out = "ok"
  THEN {a \in auth_access_token : a.refresh_token_id # refresh_token_id}
  ELSE auth_access_token

\* an insert the store accepts whatever the row references
insert_unreferenced_ok(refresh_token_id, out) == out = "ok"

\* db::tokens::insert_access_token: the row is refused when the statement
\* fails or the refresh token it references is gone
insert_access_token_ok(refresh_token_id, out) ==
  out = "ok" /\ FkAccessToRefresh(refresh_token_id)

\* a check that looks for the row and not at its expiration
is_refresh_token_missing(claims, t) == RefreshRows(claims.refresh_token) = {}

\* a check under which each hour of use would grant the session another hour
is_refresh_token_expired_sliding(claims, t) ==
  LET rows == RefreshRows(claims.refresh_token)
  IN  rows = {} \/ \E r \in rows : r.expiration_time + RefreshTtl < t

\* Claims::is_refresh_token_expired: no row, or the row's expiration is past
is_refresh_token_expired(claims, t) ==
  LET rows == RefreshRows(claims.refresh_token)
  IN  rows = {} \/ \E r \in rows : r.expiration_time < t

\* db::tokens::select_refresh_token_id: the ids of the rows with this value
select_refresh_token_id(refresh_token) == {r.id : r \in RefreshRows(refresh_token)}

\* a validity check that does not look the user up
is_valid_without_user(claims, t) == ~is_expired(claims, t)

\* Claims::is_valid
is_valid(claims, t) == ~is_expired(claims, t) /\ get_user_username(claims.user_id)

(* ----------------------------- requests -------------------------------- *)

NoUser == [username |-> <<>>, email |-> <<>>, password |-> <<>>]

\* an entry of login_states (PendingLogin under its CSRF state; the nonce
\* plays no part before the code exchange), and no entry
NoPending == [state |-> 0, provider |-> "", created_at |-> -1]

NoReq == [tok |-> NoToken, claims |-> NoClaims, new_token |-> NoClaims,
          refresh_token_id |-> 0, new_user |-> NoUser, revoked |-> FALSE,
          checked_at |-> -1, added_rt |-> {}, added_at |-> {}, at_before |-> {},
          ident |-> <<>>, password |-> <<>>, list |-> <<>>, transformed |-> <<>>,
          provider |-> "", state |-> 0, pending |-> NoPending]

\* the Authorization header of a request: absent, Bearer with a token, or
\* Basic with the uuid of a share link and a password
NoHeader == [scheme |-> "none", tok |-> NoToken, uuid |-> 0, password |-> <<>>]
Bearer(tok) == [NoHeader EXCEPT !.scheme = "Bearer", !.tok = tok]
Basic(uuid, password) == [NoHeader EXCEPT !.scheme = "Basic", !.uuid = uuid, !.password = password]

\* the scan tasks that can be running, and the locals of one: the
\* discovered paths (found), the paths and path segments still to reconcile,
\* the parent of the next segment (0 for None), the folders still to scan
\* for media, the folder being scanned (cur) and its files still to check,
\* and the insert that failed, if one did (the directory, and the file name
\* for a Media row)
ScanIds == {"s1", "s2"}
NoFailure == [kind |-> "none", dir |-> <<>>, name |-> ""]
NoScan == [pc |-> "idle", user_id |-> 0, found |-> <<>>, paths |-> <<>>,
           segs |-> <<>>, parent |-> 0, stack |-> <<>>, cur |-> 0,
           mfiles |-> <<>>, inserted |-> 0, runs |-> 0, failed |-> NoFailure]

\* the resolver before it is called: the folder it is at, the parent links
\* followed and the folders pushed
NoWalk == [pc |-> "idle", user_id |-> 0, links |-> 0, vec |-> <<>>,
           current_folder |-> [id |-> 0, owner_id |-> 0, parent |-> 0, name |-> ""]]

\* no callback has presented any state
NoCallbacks == [s \in 1..MaxLogins |-> [removed |-> 0, passed |-> 0]]

\* no pure function called yet
NoCall == [fn |-> "none", arg |-> <<>>, result |-> <<>>]

\* a response: the handler (op), its status, the token presented (tok) and
\* returned (new), and what was observed while it was served (store: the
\* outcome of the store call that decided it)
NoResp == [op |-> "none", status |-> "none", tok |-> NoToken, new |-> NoToken,
           user_id |-> 0, revoked |-> FALSE, changed |-> FALSE, cred_ok |-> FALSE,
           added_rt |-> {}, added_at |-> {}, checked_at |-> -1, row_id |-> 0,
           store |-> "ok", at_before |-> {}, ident |-> <<>>, password |-> <<>>,
           header |-> NoHeader,
           identity |-> "none", album_id |-> 0, body |-> {},
           provider |-> "", state |-> 0]

\* the outcomes of a store call: it answers, or (faulty) it fails
Outcomes(faulty) == IF faulty THEN {"ok", "err"} ELSE {"ok"}
TxOutcomes(faulty) == IF faulty THEN {"ok", "err_first", "err_second"} ELSE {"ok"}

RefreshLabels == {"rf_select_id", "rf_delete", "rf_insert"}

AllIdle == \A q \in Procs : pc[q] = "idle"

\* a handler may start in slot p: the slot is free and, when requests are
\* served one at a time, no other request is in flight
CanStart(p, seq) == last = NoResp /\ pc[p] = "idle" /\ (seq => AllIdle /\ p = "p1")

\* slot p is at the store call named label, and no response is being written
At(p, label) == last = NoResp /\ pc[p] = label

Respond(p, r) ==
  /\ last' = r
  /\ pc' = [pc EXCEPT ![p] = "idle"]
  /\ req' = [req EXCEPT ![p] = NoReq]

Goto(p, label, locals) ==
  /\ pc' = [pc EXCEPT ![p] = label]
  /\ req' = [req EXCEPT ![p] = locals]
  /\ last' = NoResp

Init ==
  /\ now = 0
  /\ ticks = 0
  /\ user = {}
  /\ auth_refresh_token = {}
  /\ auth_access_token = {}
  /\ nextId = [t \in {"user", "rt", "at"} |-> 1]
  /\ mints = 0
  /\ issued = {}
  /\ pc = [p \in Procs |-> "idle"]
  /\ req = [p \in Procs |-> NoReq]
  /\ last = NoResp
  /\ superseded = {}
  /\ loggedOut = {}
  /\ raced = {}
  /\ album = {}
  /\ album_share_link = {}
  /\ dirs = {}
  /\ files = {}
  /\ folder = {}
  /\ media = {}
  /\ scan = [r \in ScanIds |-> NoScan]
  /\ walk = NoWalk
  /\ album_media = {}
  /\ login_states = {}
  /\ callbacks = NoCallbacks
  /\ call = NoCall

\* the wall clock advances
Tick(d) ==
  /\ last = NoResp
  /\ ticks < MaxTicks
  /\ now' = now + d
  /\ ticks' = ticks + 1
  /\ last' = NoResp
  /\ UNCHANGED <<user, auth_refresh_token, auth_access_token, nextId, mints,
                 issued, pc, req, superseded, loggedOut, raced>>
  /\ UNCHANGED nonSessionVars

\* the response written is sent, and the server goes on
Deliver ==
  /\ last # NoResp
  /\ last' = NoResp
  /\ UNCHANGED <<now, ticks, user, auth_refresh_token, auth_access_token, nextId,
                 mints, issued, pc, req, superseded, loggedOut, raced>>
  /\ UNCHANGED nonSessionVars

(* ------------------------------ signup --------------------------------- *)

\* routes::create_user up to its first store call: the uniqueness check
CreateUserStart(p, seq, new_user) ==
  /\ CanStart(p, seq)
  /\ IF ~is_user_unique(new_user)
     THEN Respond(p, [NoResp EXCEPT !.op = "create_user", !.status = "409"])
     ELSE /\ NextRow("user") + Cardinality({q \in Procs : pc[q] = "cu_insert"}) <= MaxUsers
          /\ Goto(p, "cu_insert",
                  [NoReq EXCEPT !.new_user =
                     [new_user EXCEPT !.password = hash_password(new_user.password)]])
  /\ UNCHANGED <<now, ticks, user, auth_refresh_token, auth_access_token, nextId,
                 mints, issued, superseded, loggedOut, raced>>
  /\ UNCHANGED nonSessionVars

\* routes::create_user: db::users::insert_user
CreateUserInsert(p) ==
  /\ At(p, "cu_insert")
  /\ user' = user \cup {[id |-> NextRow("user"), username |-> req[p].new_user.username,
                         email |-> req[p].new_user.email,
                         password |-> req[p].new_user.password]}
  /\ nextId' = Bump("user")
  /\ Respond(p, [NoResp EXCEPT !.op = "create_user", !.status = "200"])
  /\ UNCHANGED <<now, ticks, auth_refresh_token, auth_access_token, mints, issued,
                 superseded, loggedOut, raced>>
  /\ UNCHANGED nonSessionVars

\* an administrator deletes a user, with the sessions that reference it
AdminDeleteUser(seq, user_id) ==
  /\ last = NoResp
  /\ seq => AllIdle
  /\ \E u \in user : u.id = user_id
  /\ user' = {u \in user : u.id # user_id}
  /\ LET gone == {r.id : r \in {x \in auth_refresh_token : x.user_id = user_id}}
     IN  /\ auth_refresh_token' = {r \in auth_refresh_token : r.id \notin gone}
         /\ auth_access_token' = {a \in auth_access_token : a.refresh_token_id \notin gone}
  /\ last' = NoResp
  /\ UNCHANGED <<now, ticks, nextId, mints, issued, pc, req, superseded, loggedOut, raced>>
  /\ UNCHANGED nonSessionVars

(* ------------------------------- login --------------------------------- *)

\* routes::login: hash_password, then UserLogin::login up to Claims::new
LoginStart(p, seq, cap, username_or_email, password) ==
  /\ CanStart(p, seq)
  /\ LET ids == check(username_or_email, hash_password(password))
     IN  IF ids = {}
         THEN /\ Respond(p, [NoResp EXCEPT !.op = "login", !.status = "409",
                                             !.ident = username_or_email,
                                             !.password = password])
              /\ UNCHANGED mints
         ELSE /\ mints < cap
              /\ \E user_id \in ids :
                   Goto(p, "login_insert",
                        [NoReq EXCEPT !.new_token = ClaimsNew(user_id, mints, now),
                                      !.ident = username_or_email,
                                      !.password = password])
              /\ mints' = mints + 1
  /\ UNCHANGED <<now, ticks, user, auth_refresh_token, auth_access_token, nextId,
                 issued, superseded, loggedOut, raced>>
  /\ UNCHANGED nonSessionVars

\* UserLogin::login: token.add_session_tokens_to_db(pool).await.ok()?
LoginInsert(p, out) ==
  /\ At(p, "login_insert")
  /\ LET token == req[p].new_token
         r == insert_session_tokens(token.user_id, token.refresh_token,
                                    token.access_token, now, out)
         added_rt == r.db.rt \ auth_refresh_token
         added_at == r.db.at \ auth_access_token
     IN  /\ auth_refresh_token' = r.db.rt
         /\ auth_access_token' = r.db.at
         /\ nextId' = r.ids
         /\ IF r.ok
            THEN Goto(p, "login_respond",
                      [req[p] EXCEPT !.added_rt = added_rt, !.added_at = added_at,
                                     !.checked_at = now])
            ELSE Respond(p, [NoResp EXCEPT !.op = "login", !.status = "409",
                                           !.cred_ok = TRUE, !.added_rt = added_rt,
                                           !.added_at = added_at, !.store = out,
                                           !.ident = req[p].ident,
                                           !.password = req[p].password])
  /\ UNCHANGED <<now, ticks, user, mints, issued, superseded, loggedOut, raced>>
  /\ UNCHANGED nonSessionVars

\* routes::issue_login_response
LoginRespond(p) ==
  /\ At(p, "login_respond")
  /\ LET token == req[p].new_token
         r == [NoResp EXCEPT !.op = "login", !.cred_ok = TRUE,
                             !.added_rt = req[p].added_rt, !.added_at = req[p].added_at,
                             !.ident = req[p].ident, !.password = req[p].password,
                             !.checked_at = req[p].checked_at]
     IN  IF ~get_user_by_id(token.user_id)
         THEN /\ Respond(p, [r EXCEPT !.status = "500"])
              /\ UNCHANGED issued
         ELSE /\ Respond(p, [r EXCEPT !.status = "200", !.new = encode(token)])
              /\ issued' = issued \cup {encode(token)}
  /\ UNCHANGED <<now, ticks, user, auth_refresh_token, auth_access_token, nextId,
                 mints, superseded, loggedOut, raced>>
  /\ UNCHANGED nonSessionVars

\* routes::oidc::oidc_callback for a known identity: Claims::new(user.id)
\* and issue_login_response, with no token row written
IssueFromOidc(user_id) ==
  /\ last = NoResp
  /\ AllIdle
  /\ mints < MaxMints
  /\ get_user_by_id(user_id)
  /\ mints' = mints + 1
  /\ issued' = issued \cup {encode(ClaimsNew(user_id, mints, now))}
  /\ last' = [NoResp EXCEPT !.op = "oidc", !.status = "200",
                            !.new = encode(ClaimsNew(user_id, mints, now))]
  /\ UNCHANGED <<now, ticks, user, auth_refresh_token, auth_access_token, nextId,
                 pc, req, superseded, loggedOut, raced>>
  /\ UNCHANGED nonSessionVars

(* ------------------------------ refresh -------------------------------- *)

\* the access-token values handed out so far under a refresh-token value
IssuedAccessTokens(refresh_token) ==
  {t.claims.access_token : t \in {x \in issued : x.claims.refresh_token = refresh_token}}

\* the slots other than p that are inside a Refresh of this refresh token
RefreshingOthers(p, refresh_token) ==
  {q \in Procs \ {p} : pc[q] \in RefreshLabels /\ req[q].claims.refresh_token = refresh_token}

\* routes::refresh_token up to the end of its first store call: decode,
\* is_refresh_token_expired, Claims::from_existing
RefreshStart(p, seq, cap, tok) ==
  /\ CanStart(p, seq)
  /\ LET decoded == decode(tok, now)
         temp == decode_without_validation(tok)
         r401 == [NoResp EXCEPT !.op = "refresh", !.status = "401", !.tok = tok,
                                !.revoked = tok.claims.refresh_token \in loggedOut]
     IN  IF decoded.kind # "Ok" /\ decoded.kind # "ExpiredSignature"
         THEN Respond(p, r401) /\ UNCHANGED <<mints, raced>>
         ELSE IF decoded.kind # "Ok" /\ temp.kind # "Ok"
         THEN Respond(p, r401) /\ UNCHANGED <<mints, raced>>
         ELSE LET bearer_token == IF decoded.kind = "Ok" THEN decoded.claims ELSE temp.claims
              IN  IF is_refresh_token_expired(bearer_token, now)
                  THEN Respond(p, r401) /\ UNCHANGED <<mints, raced>>
                  ELSE /\ mints < cap
                       /\ mints' = mints + 1
                       /\ raced' = IF RefreshingOthers(p, bearer_token.refresh_token) # {}
                                   THEN raced \cup {bearer_token.refresh_token}
                                   ELSE raced
                       /\ Goto(p, "rf_select_id",
                               [NoReq EXCEPT !.tok = tok, !.claims = bearer_token,
                                  !.new_token = from_existing(bearer_token, mints, now),
                                  !.revoked = bearer_token.refresh_token \in loggedOut,
                                  !.checked_at = now])
  /\ UNCHANGED <<now, ticks, user, auth_refresh_token, auth_access_token, nextId,
                 issued, superseded, loggedOut>>
  /\ UNCHANGED nonSessionVars

\* routes::refresh_token: db::tokens::select_refresh_token_id
RefreshSelectId(p) ==
  /\ At(p, "rf_select_id")
  /\ LET ids == select_refresh_token_id(req[p].claims.refresh_token)
     IN  IF ids = {}
         THEN Respond(p, [NoResp EXCEPT !.op = "refresh", !.status = "500",
                                        !.tok = req[p].tok, !.revoked = req[p].revoked,
                                        !.checked_at = req[p].checked_at])
         ELSE \E id \in ids :
                Goto(p, "rf_delete", [req[p] EXCEPT !.refresh_token_id = id,
                                                    !.at_before = AccessRows(id)])
  /\ UNCHANGED <<now, ticks, user, auth_refresh_token, auth_access_token, nextId,
                 mints, issued, superseded, loggedOut, raced>>
  /\ UNCHANGED nonSessionVars

\* routes::refresh_token: Claims::delete_obsolete_access_tokens, whose
\* result is dropped
RefreshDelete(p, out) ==
  /\ At(p, "rf_delete")
  /\ auth_access_token' = delete_obsolete_access_tokens(req[p].refresh_token_id, out)
  /\ Goto(p, "rf_insert", req[p])
  /\ UNCHANGED <<now, ticks, user, auth_refresh_token, nextId, mints, issued,
                 superseded, loggedOut, raced>>
  /\ UNCHANGED nonSessionVars

\* routes::refresh_token: add_access_token_to_db, then encode
RefreshInsert(p, out) ==
  /\ At(p, "rf_insert")
  /\ LET new_token == req[p].new_token
         r == [NoResp EXCEPT !.op = "refresh", !.tok = req[p].tok,
                             !.revoked = req[p].revoked,
                             !.checked_at = req[p].checked_at,
                             !.row_id = req[p].refresh_token_id,
                             !.at_before = req[p].at_before, !.store = out]
     IN  IF insert_access_token_ok(req[p].refresh_token_id, out)
         THEN /\ auth_access_token' = auth_access_token \cup
                   {NewAuthAccessToken(NextRow("at"), req[p].refresh_token_id,
                                       new_token.access_token, now)}
              /\ Respond(p, [r EXCEPT !.status = "200", !.new = encode(new_token),
                                      !.user_id = new_token.user_id])
              /\ superseded' = superseded \cup IssuedAccessTokens(new_token.refresh_token)
              /\ issued' = issued \cup {encode(new_token)}
         ELSE /\ Respond(p, [r EXCEPT !.status = "500"])
              /\ UNCHANGED <<auth_access_token, superseded, issued>>
  /\ nextId' = Bump("at")
  /\ UNCHANGED <<now, ticks, user, auth_refresh_token, mints, loggedOut, raced>>
  /\ UNCHANGED nonSessionVars

(* ------------------------------- logout -------------------------------- *)

\* the refresh-token values a client can present at logout
KnownRefreshTokens == {t.claims.refresh_token : t \in issued}

\* Logout: db::tokens::delete_session_by_refresh_token
Logout(p, seq, refresh_token, out) ==
  /\ CanStart(p, seq)
  /\ LET r == delete_session_by_refresh_token(refresh_token, out)
     IN  /\ auth_refresh_token' = r.db.rt
         /\ auth_access_token' = r.db.at
         /\ loggedOut' = IF r.result = "true" THEN loggedOut \cup {refresh_token}
                         ELSE loggedOut
         /\ Respond(p, [NoResp EXCEPT !.op = "logout", !.status = r.result,
                          !.tok = encode([NoClaims EXCEPT !.refresh_token = refresh_token]),
                          !.revoked = refresh_token \in loggedOut,
                          !.changed = (r.db.rt # auth_refresh_token
                                       \/ r.db.at # auth_access_token)])
  /\ UNCHANGED <<now, ticks, user, nextId, mints, issued, superseded, raced>>
  /\ UNCHANGED nonSessionVars

(* --------------------------- auth middleware --------------------------- *)

\* a middleware that answers every decode error with 422
auth_errors_unprocessable(tok, t) ==
  LET bearer_token_decoded == decode(tok, t)
  IN  IF bearer_token_decoded.kind = "Ok"
      THEN IF is_valid(bearer_token_decoded.claims, t) THEN "next" ELSE "401"
      ELSE "422"

\* auth::token::auth: the status of the response, "next" when the request is
\* passed on to the handler
auth(tok, t) ==
  LET bearer_token_decoded == decode(tok, t)
  IN  IF bearer_token_decoded.kind = "Ok"
      THEN IF is_valid(bearer_token_decoded.claims, t) THEN "next" ELSE "401"
      ELSE IF bearer_token_decoded.kind = "ExpiredSignature" THEN "401" ELSE "422"

\* a request with a bearer token to a route of the protected router: the
\* handler gets the claims the middleware put in the request extensions
Authenticate(tok) ==
  /\ last = NoResp
  /\ AllIdle
  /\ last' = [NoResp EXCEPT !.op = "auth", !.status = auth(tok, now), !.tok = tok,
                !.user_id = IF auth(tok, now) = "next"
                            THEN decode(tok, now).claims.user_id ELSE 0]
  /\ UNCHANGED <<now, ticks, user, auth_refresh_token, auth_access_token, nextId,
                 mints, issued, pc, req, superseded, loggedOut, raced>>
  /\ UNCHANGED nonSessionVars

(* ----------------------------- share links ----------------------------- *)

\* Option<String> and Option<NaiveDateTime>
None == [some |-> FALSE, v |-> <<>>]
Some(x) == [some |-> TRUE, v |-> x]
NoTime == [some |-> FALSE, v |-> 0]
SomeTime(t) == [some |-> TRUE, v |-> t]

\* shared_album_link::hash_password
hash_link_password(password) == <<"SHA512">> \o password

\* AlbumShareLinkInsert::normalize_and_hash_password
normalize_and_hash_password(password) ==
  IF ~password.some THEN password
  ELSE IF Len(password.v) = 0 THEN None
  ELSE Some(hash_link_password(password.v))

\* db::albums::select_album
select_album(album_id) == {a \in album : a.id = album_id}

\* db::albums::select_album_share_link_by_uuid
select_album_share_link_by_uuid(uuid) == {l \in album_share_link : l.uuid = uuid}

\* SharedAlbumLinkSecurity::from_request after the header is split: the
\* supplied password is hashed unless it is empty, and compared as an
\* Option with the stored one
from_request(uuid, password) ==
  LET hashed_password == IF Len(password) = 0 THEN None
                         ELSE Some(hash_link_password(password))
      album_share_link_option == select_album_share_link_by_uuid(uuid)
  IN  IF album_share_link_option = {} THEN "401"
      ELSE IF \E l \in album_share_link_option : select_album(l.album_id) = {} THEN "401"
      ELSE IF \E l \in album_share_link_option : hashed_password # l.password THEN "401"
      ELSE "next"

\* mixed_auth letting a request without credentials through
mixed_auth_open(header, t) ==
  IF header.scheme = "Bearer"
  THEN IF decode(header.tok, t).kind # "Ok" THEN [status |-> "401", identity |-> "none"]
       ELSE IF ~is_valid(decode(header.tok, t).claims, t)
       THEN [status |-> "401", identity |-> "none"]
       ELSE [status |-> "next", identity |-> "claims"]
  ELSE IF header.scheme = "Basic"
  THEN IF from_request(header.uuid, header.password) = "next"
       THEN [status |-> "next", identity |-> "shared_album_link"]
       ELSE [status |-> "401", identity |-> "none"]
  ELSE [status |-> "next", identity |-> "none"]

\* auth::mixed_auth::mixed_auth with AuthHeader::from_request_parts: Bearer
\* is tried first, Basic only when no Bearer header parses
mixed_auth(header, t) ==
  IF header.scheme = "Bearer"
  THEN IF decode(header.tok, t).kind # "Ok" THEN [status |-> "401", identity |-> "none"]
       ELSE IF ~is_valid(decode(header.tok, t).claims, t)
       THEN [status |-> "401", identity |-> "none"]
       ELSE [status |-> "next", identity |-> "claims"]
  ELSE IF header.scheme = "Basic"
  THEN IF from_request(header.uuid, header.password) = "next"
       THEN [status |-> "next", identity |-> "shared_album_link"]
       ELSE [status |-> "401", identity |-> "none"]
  ELSE [status |-> "401", identity |-> "none"]

\* a protected router that takes a share link like the mixed router does
protected_as_mixed(header, t) == mixed_auth(header, t)

\* the protected router: the TypedHeader<Authorization<Bearer>> extractor of
\* auth::token::auth rejects a request without a Bearer header
protected(header, t) ==
  IF header.scheme = "Bearer"
  THEN [status |-> auth(header.tok, t),
        identity |-> IF auth(header.tok, t) = "next" THEN "claims" ELSE "none"]
  ELSE [status |-> "400", identity |-> "none"]

\* the headers a client can send
Headers ==
  {NoHeader} \cup {Bearer(tok) : tok \in Presentable}
    \cup {Basic(uuid, pw) : uuid \in 1..MaxLinks, pw \in {<<>>, StrPw1, StrPw2}}

\* routes::albums::create_album behind the auth middleware
CreateAlbum(tok) ==
  /\ last = NoResp /\ AllIdle
  /\ auth(tok, now) = "next"
  /\ Cardinality(album) < MaxAlbums
  /\ album' = album \cup {[id |-> Cardinality(album) + 1,
                            owner_id |-> decode(tok, now).claims.user_id]}
  /\ last' = [NoResp EXCEPT !.op = "create_album", !.status = "200", !.tok = tok]
  /\ UNCHANGED <<now, ticks, user, auth_refresh_token, auth_access_token, nextId,
                 mints, issued, pc, req, superseded, loggedOut, raced,
                 album_share_link, scanVars, lateVars>>

\* routes::albums::create_album_share_link behind the auth middleware; the
\* uuid is a fresh Uuid::new_v4
CreateAlbumShareLink(tok, album_id, password, expiration) ==
  /\ last = NoResp /\ AllIdle
  /\ auth(tok, now) = "next"
  /\ Cardinality(album_share_link) < MaxLinks
  /\ LET r == [NoResp EXCEPT !.op = "create_album_share_link", !.tok = tok]
     IN  IF select_album(album_id) = {}
         THEN last' = [r EXCEPT !.status = "404"] /\ UNCHANGED album_share_link
         ELSE IF \E a \in select_album(album_id) :
                    a.owner_id # decode(tok, now).claims.user_id
         THEN last' = [r EXCEPT !.status = "403"] /\ UNCHANGED album_share_link
         ELSE /\ album_share_link' = album_share_link \cup
                   {[uuid |-> Cardinality(album_share_link) + 1, album_id |-> album_id,
                     password |-> normalize_and_hash_password(password),
                     expiration |-> expiration]}
              /\ last' = [r EXCEPT !.status = "200"]
  /\ UNCHANGED <<now, ticks, user, auth_refresh_token, auth_access_token, nextId,
                 mints, issued, pc, req, superseded, loggedOut, raced, album,
                 scanVars, lateVars>>

\* a request to a route of the mixed router
MixedRequest(header) ==
  /\ last = NoResp /\ AllIdle
  /\ last' = [NoResp EXCEPT !.op = "mixed", !.header = header,
                            !.status = mixed_auth(header, now).status,
                            !.identity = mixed_auth(header, now).identity]
  /\ UNCHANGED <<now, ticks, user, auth_refresh_token, auth_access_token, nextId,
                 mints, issued, pc, req, superseded, loggedOut, raced,
                 album, album_share_link, scanVars, lateVars>>

\* a request to a route of the protected router
ProtectedRequest(header) ==
  /\ last = NoResp /\ AllIdle
  /\ last' = [NoResp EXCEPT !.op = "protected", !.header = header,
                            !.status = protected(header, now).status,
                            !.identity = protected(header, now).identity]
  /\ UNCHANGED <<now, ticks, user, auth_refresh_token, auth_access_token, nextId,
                 mints, issued, pc, req, superseded, loggedOut, raced,
                 album, album_share_link, scanVars, lateVars>>

(* ------------------------------- scanner ------------------------------- *)

\* the directories that can exist under a user's root, as paths relative to
\* the root (<<>> is the root)
AllPaths(depth) ==
  {<<>>} \cup (IF depth >= 1 THEN {<<"a">>, <<"b">>} ELSE {})
         \cup (IF depth >= 2 THEN {<<"a", "a">>, <<"b", "a">>} ELSE {})

\* the files a directory can hold: a JPEG and a text file
FileKinds == {[name |-> "f.jpg", mime |-> "image/jpeg"],
              [name |-> "n.txt", mime |-> "text/plain"]}

\* the order in which read_dir lists names
ReadDirOrder == <<"a", "b", "f.jpg", "n.txt">>

\* part of the MIME allow-list
valid_mime_types == {"image/jpeg", "image/png", "video/mp4", "audio/mpeg"}

\* is_media_supported, on the type infer reads from the content
is_media_supported(file) == file.mime \in valid_mime_types

\* fs::read_dir(path) filtered by is_dir
ReadDirFolders(path) ==
  SelectSeq([i \in 1..Len(ReadDirOrder) |-> Append(path, ReadDirOrder[i])],
            LAMBDA d : d \in dirs)

\* folder_get_media: the names of the supported files directly in dir
folder_get_media(dir) ==
  SelectSeq(ReadDirOrder,
            LAMBDA n : \E f \in files :
                          f.dir = dir /\ f.name = n /\ is_media_supported(f))

\* scan_recursively: whether media was found under path, and the array with
\* the directories pushed
RECURSIVE scan_recursively(_)
scan_recursively(path) ==
  LET folders == ReadDirFolders(path)
      found(i) == scan_recursively(folders[i])
      state == \E i \in 1..Len(folders) : found(i).state
      array == IF Len(folders) = 0 THEN <<>>
               ELSE IF Len(folders) = 1 THEN found(1).array
               ELSE found(1).array \o found(2).array
  IN  IF Len(folders) = 0 /\ ~\E f \in files : f.dir = path
      THEN [state |-> FALSE, array |-> <<>>]
      ELSE IF state THEN [state |-> TRUE, array |-> array]
      ELSE IF Len(folder_get_media(path)) > 0
      THEN [state |-> TRUE, array |-> Append(array, path)]
      ELSE [state |-> FALSE, array |-> array]

\* add_folders_to_db: strip_prefix(root) and split("/") of a discovered
\* path; the root itself gives one empty segment
Segments(path) == IF path = <<>> THEN <<"">> ELSE path

\* the directory a path built by scan_select names: an empty segment adds
\* only a slash
Resolve(names) == SelectSeq(names, LAMBDA n : n # "")

Min(S) == CHOOSE x \in S : \A y \in S : x <= y

\* select_child_folder_id: the ids of the rows with this owner, parent and name
select_child_folder_id(name, parent, user_id) ==
  {f.id : f \in {g \in folder : g.parent = parent /\ g.name = name /\ g.owner_id = user_id}}

\* the rows of a result set in the order of their ids
RECURSIVE InIdOrder(_)
InIdOrder(rows) ==
  IF rows = {} THEN <<>>
  ELSE LET r == CHOOSE x \in rows : \A y \in rows : x.id <= y.id
       IN  <<r>> \o InIdOrder(rows \ {r})

\* select_root_folders
select_root_folders(user_id) ==
  InIdOrder({f \in folder : f.parent = 0 /\ f.owner_id = user_id})

\* select_subfolders
select_subfolders(parent_folder, user_id) ==
  InIdOrder({f \in folder : f.parent = parent_folder /\ f.owner_id = user_id})

\* a lookup of media that never finds a row
check_if_media_present_none(name, parent_folder, user_id) == {}

\* check_if_media_present: the ids of the rows with this name, owner and folder
check_if_media_present(name, parent_folder, user_id) ==
  {m.id : m \in {x \in media : x.filename = name /\ x.owner_id = user_id
                                  /\ x.folder_id = parent_folder}}

\* NewFolder::new and NewMedia::new as the rows the store keeps
NewFolder(id, user_id, name, parent) ==
  [id |-> id, owner_id |-> user_id, parent |-> parent, name |-> name]
NewMedia(id, name, folder_id, user_id) ==
  [id |-> id, filename |-> name, folder_id |-> folder_id, owner_id |-> user_id]

\* the locals of add_folders_to_db after a segment resolved to folder id
AfterSegment(sc, id) ==
  IF Len(sc.segs) > 1
  THEN [sc EXCEPT !.segs = Tail(@), !.parent = id, !.pc = "select"]
  ELSE IF Len(sc.paths) > 1
  THEN [sc EXCEPT !.paths = Tail(@), !.segs = Segments(sc.paths[2]),
                  !.parent = 0, !.pc = "select"]
  ELSE [sc EXCEPT !.paths = <<>>, !.segs = <<>>, !.parent = 0, !.pc = "roots"]

\* where scan_select goes on when the files of a folder are dealt with
AfterFolder(sc) ==
  IF sc.mfiles # <<>> THEN [sc EXCEPT !.pc = "check"]
  ELSE IF sc.stack # <<>> THEN [sc EXCEPT !.pc = "sub"]
  ELSE [sc EXCEPT !.pc = "done", !.runs = @ + 1]

\* scan_media spawning scan_root, up to the end of the discovery
ScanStart(r, user_id, cap) ==
  /\ scan[r].pc \in {"idle", "done"}
  /\ scan[r].runs < cap
  /\ get_user_username(user_id)
  /\ dirs' = dirs \cup {<<>>}
  /\ LET found_folders ==
           IF Len(ReadDirFolders(<<>>)) > 0 \/ \E f \in files : f.dir = <<>>
           THEN scan_recursively(<<>>).array ELSE <<>>
     IN  scan' = [scan EXCEPT ![r] =
           [NoScan EXCEPT !.runs = scan[r].runs, !.user_id = user_id,
                          !.found = found_folders, !.paths = found_folders,
                          !.segs = IF found_folders = <<>> THEN <<>>
                                   ELSE Segments(found_folders[1]),
                          !.pc = IF found_folders = <<>> THEN "roots" ELSE "select"]]
  /\ UNCHANGED <<files, folder, media, sessionVars, lateVars>>

\* add_folders_to_db: select_child_folder_id for the next segment
FolderSelect(r) ==
  /\ scan[r].pc = "select"
  /\ LET ids == select_child_folder_id(Head(scan[r].segs), scan[r].parent, scan[r].user_id)
     IN  scan' = [scan EXCEPT ![r] =
           IF ids = {} THEN [@ EXCEPT !.pc = "insert"] ELSE AfterSegment(@, Min(ids))]
  /\ UNCHANGED <<dirs, files, folder, media, sessionVars, lateVars>>

\* add_folders_to_db: insert_folder and get_last_insert_id
FolderInsert(r) ==
  /\ scan[r].pc = "insert"
  /\ LET id == Cardinality(folder) + 1
     IN  /\ folder' = folder \cup
              {NewFolder(id, scan[r].user_id, Head(scan[r].segs), scan[r].parent)}
         /\ scan' = [scan EXCEPT ![r] =
              AfterSegment([@ EXCEPT !.inserted = @ + 1], id)]
  /\ UNCHANGED <<dirs, files, media, sessionVars, lateVars>>

\* scan_folders_for_media: select_root_folders
MediaRoots(r) ==
  /\ scan[r].pc = "roots"
  /\ LET root_folders == select_root_folders(scan[r].user_id)
     IN  scan' = [scan EXCEPT ![r] =
           AfterFolder([@ EXCEPT !.stack =
             [i \in 1..Len(root_folders) |->
                [folder |-> root_folders[i].id, path |-> <<root_folders[i].name>>]]])]
  /\ UNCHANGED <<dirs, files, folder, media, sessionVars, lateVars>>

\* scan_select: select_subfolders of the next folder and folder_get_media
\* of its directory
MediaFolder(r) ==
  /\ scan[r].pc = "sub"
  /\ LET parent_folder == Head(scan[r].stack)
         folders == select_subfolders(parent_folder.folder, scan[r].user_id)
     IN  scan' = [scan EXCEPT ![r] =
           AfterFolder([@ EXCEPT
             !.cur = parent_folder.folder,
             !.mfiles = folder_get_media(Resolve(parent_folder.path)),
             !.stack = [i \in 1..Len(folders) |->
                          [folder |-> folders[i].id,
                           path |-> Append(parent_folder.path, folders[i].name)]]
                       \o Tail(@)])]
  /\ UNCHANGED <<dirs, files, folder, media, sessionVars, lateVars>>

\* scan_folder_media: check_if_media_present for the next file
MediaCheck(r) ==
  /\ scan[r].pc = "check"
  /\ scan' = [scan EXCEPT ![r] =
       IF check_if_media_present(Head(@.mfiles), @.cur, @.user_id) = {}
       THEN [@ EXCEPT !.pc = "minsert"]
       ELSE AfterFolder([@ EXCEPT !.mfiles = Tail(@)])]
  /\ UNCHANGED <<dirs, files, folder, media, sessionVars, lateVars>>

\* scan_folder_media: insert_media
MediaInsert(r) ==
  /\ scan[r].pc = "minsert"
  /\ media' = media \cup
       {NewMedia(Cardinality(media) + 1, Head(scan[r].mfiles), scan[r].cur, scan[r].user_id)}
  /\ scan' = [scan EXCEPT ![r] =
       AfterFolder([@ EXCEPT !.mfiles = Tail(@), !.inserted = @ + 1])]
  /\ UNCHANGED <<dirs, files, folder, sessionVars, lateVars>>

\* the directory of the segment add_folders_to_db is at
SegmentDir(sc) ==
  Resolve(SubSeq(Segments(Head(sc.paths)), 1,
                 Len(Segments(Head(sc.paths))) - Len(sc.segs) + 1))

\* the directory a Folder row stands for: the names up its parent chain
RECURSIVE FolderDir(_)
FolderDir(id) ==
  LET f == CHOOSE g \in folder : g.id = id
  IN  IF f.parent = 0 THEN Resolve(<<f.name>>)
      ELSE FolderDir(f.parent) \o Resolve(<<f.name>>)

\* add_folders_to_db: insert_folder with a store that refuses the statement;
\* expect() panics and the task ends
FolderInsertFails(r) ==
  /\ scan[r].pc = "insert"
  /\ scan[r].failed = NoFailure
  /\ scan' = [scan EXCEPT ![r] =
       [@ EXCEPT !.pc = "panicked",
                 !.failed = [kind |-> "folder", dir |-> SegmentDir(scan[r]),
                             name |-> ""]]]
  /\ UNCHANGED <<dirs, files, folder, media, sessionVars, lateVars>>

\* scan_folder_media: insert_media with a store that refuses the statement;
\* expect() panics and the task ends
MediaInsertFails(r) ==
  /\ scan[r].pc = "minsert"
  /\ scan[r].failed = NoFailure
  /\ scan' = [scan EXCEPT ![r] =
       [@ EXCEPT !.pc = "panicked",
                 !.failed = [kind |-> "media", dir |-> FolderDir(scan[r].cur),
                             name |-> Head(scan[r].mfiles)]]]
  /\ UNCHANGED <<dirs, files, folder, media, sessionVars, lateVars>>

(* --------------------------- specifications ---------------------------- *)

(* ------------------------ ancestor-chain resolver ----------------------- *)

\* db::folders::select_folder: the rows with this id
select_folder(folder_id) == {f \in folder : f.id = folder_id}

\* scan::select_parent_folder: nothing for a folder without parent, else the
\* rows with the parent's id and this owner
select_parent_folder(current_folder, user_id) ==
  IF current_folder.parent = 0 THEN {}
  ELSE {f \in folder : f.id = current_folder.parent /\ f.owner_id = user_id}

\* routes::media::get_media_by_uuid: select_folder of the media's folder,
\* pushed first, then the call of select_parent_folder_recursive
WalkStart(folder_id, user_id) ==
  /\ walk.pc = "idle"
  /\ \E current_folder \in select_folder(folder_id) :
       walk' = [NoWalk EXCEPT !.pc = "walking", !.user_id = user_id,
                              !.current_folder = current_folder,
                              !.vec = <<current_folder.id>>]
  /\ UNCHANGED <<sessionVars, scanVars, album_media, login_states, callbacks, call>>

\* scan::select_parent_folder_recursive, one call: no parent row returns
\* false, else the parent is pushed and the function calls itself
WalkStep ==
  /\ walk.pc = "walking"
  /\ LET parent == select_parent_folder(walk.current_folder, walk.user_id)
     IN  IF parent = {}
         THEN walk' = [walk EXCEPT !.pc = "returned"]
         ELSE /\ walk.links < MaxFollow
              /\ \E f \in parent :
                   walk' = [walk EXCEPT !.current_folder = f, !.links = @ + 1,
                                        !.vec = Append(@, f.id)]
  /\ UNCHANGED <<sessionVars, scanVars, album_media, login_states, callbacks, call>>

(* ----------------------------- signup checks ---------------------------- *)

\* the characters a username is tried with, by class
LowerLetters == {"a", "b"}
Digits == {"1"}
Underscore == {"_"}

\* n times the character ch
Repeat(ch, n) == [i \in 1..n |-> ch]

\* regex ^[a-z_][a-z0-9_]{4,29}$ on a string
username_regex_is_match(username) ==
  /\ Len(username) >= 1 + 4 /\ Len(username) <= 1 + 29
  /\ username[1] \in LowerLetters \cup Underscore
  /\ \A i \in 2..Len(username) : username[i] \in LowerLetters \cup Digits \cup Underscore

\* NewUser::check_username: the length tested is the password's
check_username(new_user) ==
  LET len == Len(new_user.password)
  IN  IF len < 5 \/ len > 30 THEN FALSE
      ELSE username_regex_is_match(new_user.username)

\* NewUser::check_password
check_password(new_user) ==
  LET len == Len(new_user.password)
  IN  IF len < 8 \/ len > 128 THEN FALSE ELSE TRUE

\* NewUser::is_email_valid (EmailAddress::is_valid), on the addresses tried:
\* one @ with a non-empty local part before it and a non-empty domain after
is_email_valid(new_user) ==
  LET email == new_user.email
      ats == {i \in 1..Len(email) : email[i] = "@"}
  IN  Cardinality(ats) = 1 /\ \A i \in ats : i > 1 /\ i < Len(email)

\* NewUser::check
NewUser_check(new_user) ==
  check_username(new_user) /\ is_email_valid(new_user) /\ check_password(new_user)

\* the signups tried: usernames by first character, filling character and
\* length; addresses with and without @; passwords by length
TriedUsernames ==
  {<<first>> \o Repeat(fill, n - 1) :
     first \in {"a", "_", "1", "A"}, fill \in {"b", "1", "_", "-"},
     n \in {4, 5, 30, MaxUsernameLen}}
TriedEmails == {StrAliceMail, StrAlice, <<"@", "x">>}
TriedPasswords == {Repeat("p", n) : n \in {4, 5, 7, 8, 30, 31, 128, MaxPasswordLen}}

\* routes::create_user, its first test: NewUser::check
Check(new_user) ==
  /\ call' = [fn |-> "NewUser::check", arg |-> new_user,
              result |-> NewUser_check(new_user)]
  /\ UNCHANGED <<sessionVars, scanVars, walk, album_media, login_states, callbacks>>

(* --------------------------- base-URL settings -------------------------- *)

StrHttp == <<"h", "t", "t", "p">>
StrMailto == <<"m", "a", "i", "l", "t", "o">>
SpecialSchemes == {StrHttp}
Letters == {"a", "b", "h", "i", "l", "m", "o", "p", "t", "x"}
PortDigits == {"8"}

\* the index of the first ch in s, 0 when there is none
IndexOf(s, ch) ==
  IF \E i \in 1..Len(s) : s[i] = ch
  THEN Min({i \in 1..Len(s) : s[i] = ch})
  ELSE 0

\* s without its first n characters
Drop(s, n) == SubSeq(s, n + 1, Len(s))

\* str::split('/'): the pieces between the slashes, empty ones included
RECURSIVE split(_)
split(s) ==
  LET i == IndexOf(s, "/")
  IN  IF i = 0 THEN <<s>> ELSE <<SubSeq(s, 1, i - 1)>> \o split(Drop(s, i))

\* join("/")
RECURSIVE join(_)
join(segs) ==
  IF Len(segs) = 0 THEN <<>>
  ELSE IF Len(segs) = 1 THEN segs[1]
  ELSE segs[1] \o <<"/">> \o join(Tail(segs))

\* s without its leading slashes
RECURSIVE SkipSlashes(_)
SkipSlashes(s) == IF Len(s) > 0 /\ s[1] = "/" THEN SkipSlashes(Tail(s)) ELSE s

\* a parsed Url: has_host tells that it has an authority, cannot_be_a_base
\* that its path is opaque
NoUrl == [scheme |-> <<>>, has_host |-> FALSE, host |-> <<>>, port |-> <<>>,
          path |-> <<>>, cannot_be_a_base |-> FALSE]

\* the part of Url::parse that reads host, port and path after the slashes
parse_authority(scheme, after) ==
  LET slash == IndexOf(after, "/")
      hostport == IF slash = 0 THEN after ELSE SubSeq(after, 1, slash - 1)
      rest == IF slash = 0 THEN <<>> ELSE Drop(after, slash - 1)
      colon == IndexOf(hostport, ":")
      host == IF colon = 0 THEN hostport ELSE SubSeq(hostport, 1, colon - 1)
      port == IF colon = 0 THEN <<>> ELSE Drop(hostport, colon)
      special == scheme \in SpecialSchemes
  IN  IF special /\ host = <<>> THEN None
      ELSE IF \E k \in 1..Len(port) : port[k] \notin PortDigits THEN None
      ELSE Some([NoUrl EXCEPT !.scheme = scheme, !.has_host = TRUE, !.host = host,
                              !.port = port,
                              !.path = IF special /\ rest = <<>> THEN <<"/">> ELSE rest])

\* Url::parse on the inputs tried: a scheme of letters before the first
\* colon, else the input is relative and there is no base to resolve it
Url_parse(input) ==
  LET colon == IndexOf(input, ":")
      scheme == SubSeq(input, 1, colon - 1)
      rest == Drop(input, colon)
  IN  IF colon <= 1 \/ \E k \in 1..Len(scheme) : scheme[k] \notin Letters THEN None
      ELSE IF scheme \in SpecialSchemes THEN parse_authority(scheme, SkipSlashes(rest))
      ELSE IF Len(rest) >= 2 /\ rest[1] = "/" /\ rest[2] = "/"
      THEN parse_authority(scheme, Drop(rest, 2))
      ELSE IF Len(rest) >= 1 /\ rest[1] = "/"
      THEN Some([NoUrl EXCEPT !.scheme = scheme, !.path = rest])
      ELSE Some([NoUrl EXCEPT !.scheme = scheme, !.path = rest,
                              !.cannot_be_a_base = TRUE])

\* Url::as_str
as_str(url) ==
  url.scheme \o <<":">>
  \o (IF url.has_host
      THEN <<"/", "/">> \o url.host
           \o (IF url.port = <<>> THEN <<>> ELSE <<":">> \o url.port)
      ELSE <<>>)
  \o url.path

\* Url::set_path: a URL that cannot be a base keeps an opaque path, in
\* which a leading slash is written %2F
set_path(url, path) ==
  IF url.cannot_be_a_base
  THEN [url EXCEPT !.path = IF Len(path) > 0 /\ path[1] = "/"
                            THEN <<"%", "2", "F">> \o Tail(path)
                            ELSE path]
  ELSE [url EXCEPT !.path = path]

\* config::normalise_base_url
normalise_base_url(backend_url) ==
  LET parsed == Url_parse(backend_url)
  IN  IF ~parsed.some THEN None
      ELSE LET url == parsed.v
               path == join(SelectSeq(split(url.path), LAMBDA seg : seg # <<>>))
               normalized_path == IF path = <<>> THEN <<"/">>
                                  ELSE <<"/">> \o path \o <<"/">>
           IN  Some(set_path(url, normalized_path))

\* the settings tried: a prefix followed by any text of slashes and letters
TriedPrefixes ==
  {StrHttp \o <<":", "/", "/", "x">>, StrHttp \o <<":", "/", "/", "x", ":", "8">>,
   StrHttp \o <<":", "/", "/">>, StrHttp \o <<":">>, StrMailto \o <<":">>, <<"x">>}
TriedTexts == UNION {[1..n -> {"/", "a", "b"}] : n \in 0..MaxPathLen}

\* config::get_backend_url or get_frontend_url with this value in the
\* environment
Normalise(backend_url) ==
  /\ call' = [fn |-> "normalise_base_url", arg |-> backend_url,
              result |-> normalise_base_url(backend_url)]
  /\ UNCHANGED <<sessionVars, scanVars, walk, album_media, login_states, callbacks>>

(* ------------------ the request guard of src/auth.rs -------------------- *)

\* auth::generate_token(user_id), the n-th token, at time t
generate_token(user_id, n, t) ==
  encode([exp |-> t + 900, iat |-> t, user_id |-> user_id,
          refresh_token |-> RandRefresh(n), access_token |-> 0])

\* auth::Claims::is_expired: exp against the current time plus 15 minutes
guard_is_expired(claims, t) ==
  LET current_time == t
      expiraton_time == 900
  IN  claims.exp < (current_time + expiraton_time)

\* auth::Claims::is_valid
guard_is_valid(claims, t) ==
  ~guard_is_expired(claims, t) /\ get_user_username(claims.user_id)

\* a login answered with generate_token(user_id)
GenerateToken(user_id) ==
  /\ last = NoResp
  /\ mints < MaxMints
  /\ get_user_by_id(user_id)
  /\ mints' = mints + 1
  /\ issued' = issued \cup {generate_token(user_id, mints, now)}
  /\ last' = [NoResp EXCEPT !.op = "generate_token", !.status = "200",
                            !.new = generate_token(user_id, mints, now)]
  /\ UNCHANGED <<now, ticks, user, auth_refresh_token, auth_access_token, nextId,
                 pc, req, superseded, loggedOut, raced>>
  /\ UNCHANGED nonSessionVars

\* FromRequest for Claims: decode_bearer_token, then Claims::is_valid
GuardRequest(tok) ==
  /\ last = NoResp
  /\ LET bearer_token_decoded == decode(tok, now)
         ok == /\ bearer_token_decoded.kind = "Ok"
               /\ guard_is_valid(bearer_token_decoded.claims, now)
     IN  last' = [NoResp EXCEPT !.op = "guard", !.tok = tok, !.checked_at = now,
                               !.status = IF ok THEN "200" ELSE "401",
                               !.user_id = IF ok THEN tok.claims.user_id ELSE 0]
  /\ UNCHANGED <<now, ticks, user, auth_refresh_token, auth_access_token, nextId,
                 mints, issued, pc, req, superseded, loggedOut, raced>>
  /\ UNCHANGED nonSessionVars

(* ------------------------------ album media ----------------------------- *)

\* the uuid (album.link, media.uuid) of the row with this id
Uuid(id) == 10 * id

\* db::albums::select_album_id
select_album_id(album_uuid) == {a.id : a \in {x \in album : Uuid(x.id) = album_uuid}}

\* db::albums::user_has_album_access
user_has_album_access(user_id, album_id) ==
  \E a \in album : a.id = album_id /\ a.owner_id = user_id

\* db::media::media_user_has_access
media_user_has_access(media_uuid, owner_id) ==
  \E m \in media : Uuid(m.id) = media_uuid /\ m.owner_id = owner_id

\* db::media::select_media_id
select_media_id(media_uuid) == {m.id : m \in {x \in media : Uuid(x.id) = media_uuid}}

\* db::albums::album_already_has_media
album_already_has_media(album_id, media_id) ==
  \E r \in album_media : r.album_id = album_id /\ r.media_id = media_id

\* db::albums::get_album_media
get_album_media(album_id) ==
  {m \in media : m.id \in {r.media_id : r \in {x \in album_media : x.album_id = album_id}}}

\* routes::albums::album_add_media behind the auth middleware, before its loop
AlbumAddMediaStart(p, seq, tok, list_of_media) ==
  /\ CanStart(p, seq)
  /\ Cardinality(album_media) < MaxAlbumMedia
  /\ IF auth(tok, now) # "next"
     THEN Respond(p, [NoResp EXCEPT !.op = "album_add_media", !.tok = tok,
                                    !.status = auth(tok, now)])
     ELSE Goto(p, "am_loop", [NoReq EXCEPT !.tok = tok, !.claims = decode(tok, now).claims,
                                          !.list = list_of_media])
  /\ UNCHANGED <<now, ticks, user, auth_refresh_token, auth_access_token, nextId,
                 mints, issued, superseded, loggedOut, raced>>
  /\ UNCHANGED nonSessionVars

\* routes::albums::album_add_media, one turn of its loop: the album and the
\* media are looked up, access is tested, a pair found in album_media is
\* skipped, any other is pushed to transformed
AlbumAddMediaLoop(p) ==
  /\ At(p, "am_loop")
  /\ LET r == [NoResp EXCEPT !.op = "album_add_media", !.tok = req[p].tok]
         continue == Goto(p, "am_loop", [req[p] EXCEPT !.list = Tail(@)])
     IN  IF req[p].list = <<>> THEN Goto(p, "am_insert", req[p])
         ELSE LET new == Head(req[p].list)
                  album_id == select_album_id(new.album_uuid)
                  media_id == select_media_id(new.media_uuid)
              IN  IF album_id = {} THEN continue
                  ELSE IF \E a \in album_id : ~user_has_album_access(req[p].claims.user_id, a)
                  THEN Respond(p, [r EXCEPT !.status = "403"])
                  ELSE IF ~media_user_has_access(new.media_uuid, req[p].claims.user_id)
                  THEN Respond(p, [r EXCEPT !.status = "403"])
                  ELSE IF media_id = {} THEN continue
                  ELSE \E a \in album_id, m \in media_id :
                         IF album_already_has_media(a, m) THEN continue
                         ELSE Goto(p, "am_loop",
                                   [req[p] EXCEPT !.list = Tail(@),
                                      !.transformed = Append(@, [album_id |-> a,
                                                                 media_id |-> m])])
  /\ UNCHANGED <<now, ticks, user, auth_refresh_token, auth_access_token, nextId,
                 mints, issued, superseded, loggedOut, raced>>
  /\ UNCHANGED nonSessionVars

\* routes::albums::album_add_media after its loop: db::albums::album_add_media,
\* one INSERT of the rows of transformed
AlbumAddMediaInsert(p) ==
  /\ At(p, "am_insert")
  /\ LET transformed == req[p].transformed
     IN  album_media' = album_media \cup
           {[id |-> Cardinality(album_media) + k,
             album_id |-> transformed[k].album_id,
             media_id |-> transformed[k].media_id] : k \in 1..Len(transformed)}
  /\ Respond(p, [NoResp EXCEPT !.op = "album_add_media", !.tok = req[p].tok,
                                !.status = "200"])
  /\ UNCHANGED <<now, ticks, user, auth_refresh_token, auth_access_token, nextId,
                 mints, issued, superseded, loggedOut, raced>>
  /\ UNCHANGED <<album, album_share_link, scanVars, walk, login_states, callbacks, call>>

\* routes::albums::get_album_structure behind mixed_auth
GetAlbumStructure(header, album_uuid) ==
  /\ last = NoResp /\ AllIdle
  /\ LET mixed == mixed_auth(header, now)
         r == [NoResp EXCEPT !.op = "get_album_structure", !.header = header,
                             !.identity = mixed.identity]
         album_id == select_album_id(album_uuid)
     IN  IF mixed.status # "next" THEN last' = [r EXCEPT !.status = mixed.status]
         ELSE IF album_id = {} THEN last' = [r EXCEPT !.status = "404"]
         ELSE \E id \in album_id :
                IF select_album(id) = {} THEN last' = [r EXCEPT !.status = "404"]
                ELSE \E a \in select_album(id) :
                       IF mixed.identity = "claims"
                            /\ a.owner_id # decode(header.tok, now).claims.user_id
                       THEN last' = [r EXCEPT !.status = "401"]
                       ELSE IF mixed.identity \notin {"claims", "shared_album_link"}
                       THEN last' = [r EXCEPT !.status = "401"]
                       ELSE last' = [r EXCEPT !.status = "200", !.album_id = a.id,
                                              !.body = get_album_media(a.id)]
  /\ UNCHANGED <<now, ticks, user, auth_refresh_token, auth_access_token, nextId,
                 mints, issued, pc, req, superseded, loggedOut, raced>>
  /\ UNCHANGED nonSessionVars

(* ------------------------------ OIDC login ------------------------------ *)

OidcProviders == {"a", "b"}

\* the CSRF states never handed out so far
UnusedStates ==
  {st \in 1..MaxLogins : callbacks[st].removed = 0
                           /\ \A l \in login_states : l.state # st}

\* a lookup that leaves the entry in the map
remove_as_get(map, state) == map

\* DashMap::remove: the map without the entry of this key
remove(map, state) == {l \in map : l.state # state}

\* routes::oidc::oidc_login: a fresh CsrfToken, stored with the provider and
\* the time
OidcLogin(provider) ==
  /\ last = NoResp
  /\ UnusedStates # {}
  /\ LET csrf_token == Min(UnusedStates)
     IN  /\ login_states' = login_states \cup
              {[state |-> csrf_token, provider |-> provider, created_at |-> now]}
         /\ last' = [NoResp EXCEPT !.op = "oidc_login", !.status = "302",
                                   !.provider = provider, !.state = csrf_token]
  /\ UNCHANGED <<now, ticks, user, auth_refresh_token, auth_access_token, nextId,
                 mints, issued, pc, req, superseded, loggedOut, raced>>
  /\ UNCHANGED <<album, album_share_link, scanVars, walk, album_media, callbacks, call>>

\* routes::oidc::oidc_callback, its first step: login_states.remove(state)
OidcCallbackRemove(p, seq, provider, state) ==
  /\ CanStart(p, seq)
  /\ LET found == {l \in login_states : l.state = state}
     IN  /\ login_states' = remove(login_states, state)
         /\ IF found = {}
            THEN /\ Respond(p, [NoResp EXCEPT !.op = "oidc_callback", !.status = "400",
                                              !.provider = provider, !.state = state])
                 /\ UNCHANGED callbacks
            ELSE \E pending \in found :
                   /\ callbacks' = [callbacks EXCEPT ![state].removed = @ + 1]
                   /\ Goto(p, "cb_validate", [NoReq EXCEPT !.provider = provider,
                                                 !.state = state, !.pending = pending])
  /\ UNCHANGED <<now, ticks, user, auth_refresh_token, auth_access_token, nextId,
                 mints, issued, superseded, loggedOut, raced>>
  /\ UNCHANGED <<album, album_share_link, scanVars, walk, album_media, call>>

\* routes::oidc::oidc_callback with the entry it took: the provider and the
\* age of the entry are tested, then the code exchange begins
OidcCallbackValidate(p) ==
  /\ At(p, "cb_validate")
  /\ LET r == [NoResp EXCEPT !.op = "oidc_callback", !.provider = req[p].provider,
                             !.state = req[p].state]
         pending == req[p].pending
     IN  IF pending.provider # req[p].provider
         THEN Respond(p, [r EXCEPT !.status = "400"]) /\ UNCHANGED callbacks
         ELSE IF now - pending.created_at > LOGIN_STATE_TTL_SECS
         THEN Respond(p, [r EXCEPT !.status = "400"]) /\ UNCHANGED callbacks
         ELSE /\ Respond(p, [r EXCEPT !.status = "next"])
              /\ callbacks' = [callbacks EXCEPT ![req[p].state].passed = @ + 1]
  /\ UNCHANGED <<now, ticks, user, auth_refresh_token, auth_access_token, nextId,
                 mints, issued, superseded, loggedOut, raced>>
  /\ UNCHANGED <<album, album_share_link, scanVars, walk, album_media, login_states,
                 call>>

\* the handlers of the session routes and of signup; seq: requests are
\* served one at a time; faulty: store calls may fail; cap: the tokens minted
Handlers(seq, faulty, cap) ==
  \/ \E p \in Procs, new_user \in Signups : CreateUserStart(p, seq, new_user)
  \/ \E p \in Procs : CreateUserInsert(p)
  \/ \E u \in user : AdminDeleteUser(seq, u.id)
  \/ \E p \in Procs, i \in Identifiers, pw \in Passwords : LoginStart(p, seq, cap, i, pw)
  \/ \E p \in Procs, out \in TxOutcomes(faulty) : LoginInsert(p, out)
  \/ \E p \in Procs : LoginRespond(p)
  \/ \E p \in Procs, tok \in Presentable : RefreshStart(p, seq, cap, tok)
  \/ \E p \in Procs : RefreshSelectId(p)
  \/ \E p \in Procs, out \in Outcomes(faulty) : RefreshDelete(p, out)
  \/ \E p \in Procs, out \in Outcomes(faulty) : RefreshInsert(p, out)
  \/ \E p \in Procs, rt \in KnownRefreshTokens, out \in Outcomes(faulty) :
       Logout(p, seq, rt, out)
  \/ Deliver

\* what surrounds the session handlers: the clock, the OIDC callback and the
\* protected routes
Environment ==
  \/ \E d \in TickSteps : Tick(d)
  \/ \E u \in user : IssueFromOidc(u.id)
  \/ \E tok \in Presentable : Authenticate(tok)

\* requests served one at a time, by a store that answers every call
Next == Handlers(TRUE, FALSE, MaxMints) \/ Environment
Spec == Init /\ [][Next]_vars

\* requests interleave at their store calls. The clock stands still: the
\* passing of time only makes Refresh refuse, so it adds no state of the tables
NextConc == Handlers(FALSE, FALSE, MaxMintsConc)
SpecConc == Init /\ [][NextConc]_vars

\* requests served one at a time, by a store whose calls may fail
NextFault == Handlers(TRUE, TRUE, MaxMints) \/ Environment
SpecFault == Init /\ [][NextFault]_vars

\* the album routes and the two authenticating routers, with users signing
\* up and getting tokens from the OIDC callback
NextShare ==
  \/ \E d \in TickSteps : Tick(d)
  \/ \E new_user \in Signups : CreateUserStart("p1", TRUE, new_user)
  \/ CreateUserInsert("p1")
  \/ \E u \in user : IssueFromOidc(u.id)
  \/ \E tok \in issued : CreateAlbum(tok)
  \/ \E tok \in issued, album_id \in 1..MaxAlbums,
        password \in {None, Some(<<>>), Some(StrPw1)},
        expiration \in {NoTime, SomeTime(AccessTtl)} :
          CreateAlbumShareLink(tok, album_id, password, expiration)
  \/ \E header \in Headers : MixedRequest(header)
  \/ \E header \in Headers : ProtectedRequest(header)
  \/ Deliver
SpecShare == Init /\ [][NextShare]_vars

\* a signed-up user with some directory tree under their root, which may
\* not exist yet
InitScan(depth) ==
  /\ now = 0
  /\ ticks = 0
  /\ user = {[id |-> 1, username |-> StrAlice, email |-> StrAliceMail,
              password |-> hash_password(StrPw1)]}
  /\ auth_refresh_token = {}
  /\ auth_access_token = {}
  /\ nextId = [t \in {"user", "rt", "at"} |-> IF t = "user" THEN 2 ELSE 1]
  /\ mints = 0
  /\ issued = {}
  /\ pc = [p \in Procs |-> "idle"]
  /\ req = [p \in Procs |-> NoReq]
  /\ last = NoResp
  /\ superseded = {}
  /\ loggedOut = {}
  /\ raced = {}
  /\ album = {}
  /\ album_share_link = {}
  /\ dirs \in {D \in SUBSET AllPaths(depth) :
                 \A d \in D : d # <<>> => SubSeq(d, 1, Len(d) - 1) \in D}
  /\ files \in SUBSET {[dir |-> d, name |-> k.name, mime |-> k.mime] :
                        d \in dirs, k \in FileKinds}
  /\ folder = {}
  /\ media = {}
  /\ scan = [r \in ScanIds |-> NoScan]
  /\ walk = NoWalk
  /\ album_media = {}
  /\ login_states = {}
  /\ callbacks = NoCallbacks
  /\ call = NoCall

\* one scan task at a time, run up to MaxRuns times
NextScan ==
  \/ \E u \in user : ScanStart("s1", u.id, MaxRuns)
  \/ FolderSelect("s1")
  \/ FolderInsert("s1")
  \/ MediaRoots("s1")
  \/ MediaFolder("s1")
  \/ MediaCheck("s1")
  \/ MediaInsert("s1")
SpecScan == InitScan(MaxDepth) /\ [][NextScan]_vars

\* two scan tasks for the same user, each store call a step of its own
NextScanConc ==
  \E r \in ScanIds :
    \/ \E u \in user : ScanStart(r, u.id, 1)
    \/ FolderSelect(r)
    \/ FolderInsert(r)
    \/ MediaRoots(r)
    \/ MediaFolder(r)
    \/ MediaCheck(r)
    \/ MediaInsert(r)
SpecScanConc == InitScan(MaxDepthConc) /\ [][NextScanConc]_vars

\* one scan, by a store that may refuse one insert
NextScanFault ==
  \/ \E u \in user : ScanStart("s1", u.id, 1)
  \/ FolderSelect("s1")
  \/ FolderInsert("s1")
  \/ FolderInsertFails("s1")
  \/ MediaRoots("s1")
  \/ MediaFolder("s1")
  \/ MediaCheck("s1")
  \/ MediaInsert("s1")
  \/ MediaInsertFails("s1")
SpecScanFault == InitScan(MaxDepth) /\ [][NextScanFault]_vars

(* ------------------------------ properties ----------------------------- *)

\* no Refresh of this refresh-token value is in flight
NoRefreshInFlight(refresh_token) ==
  \A p \in Procs : ~(pc[p] \in RefreshLabels /\ req[p].claims.refresh_token = refresh_token)

\* C1: when Login, Refresh and Logout run one after the other, each to
\* completion, no refresh-token id has more than one access-token row.
C1_AtMostOneAccessRow ==
  AllIdle =>
    \A id \in {a.refresh_token_id : a \in auth_access_token} :
       Cardinality(AccessRows(id)) <= 1

\* a Refresh has just succeeded and the row it inserted is the only one of
\* its refresh token
C1_RefreshedOnce ==
  /\ last.op = "refresh" /\ last.status = "200"
  /\ \E r \in RefreshRows(last.new.claims.refresh_token) :
       /\ Cardinality(AccessRows(r.id)) = 1
       /\ \A a \in AccessRows(r.id) : a.access_token = last.new.claims.access_token

\* C2: once two Refresh calls that were in flight together on one refresh
\* token have both finished, that refresh token has exactly one
\* access-token row.
C2_ExactlyOneAfterRace ==
  \A r \in auth_refresh_token :
     (r.refresh_token \in raced /\ NoRefreshInFlight(r.refresh_token))
        => Cardinality(AccessRows(r.id)) = 1

\* C3: an access token issued for a refresh token before a successful
\* Refresh of it is not let through by the auth middleware afterwards.
C3_SupersededRejected ==
  (last.op = "auth" /\ last.tok \in issued
     /\ last.tok.claims.access_token \in superseded)
    => last.status # "next"

\* C4: once a Logout has deleted the session of a refresh token, no Refresh
\* presenting it succeeds, and a further Logout of it answers false and
\* changes no row.
C4_LogoutRevokes ==
  /\ (last.op = "refresh" /\ last.revoked) => last.status # "200"
  /\ (last.op = "logout" /\ last.revoked) => (last.status = "false" /\ ~last.changed)

\* a Refresh presenting a token the server issued, whose session a Logout
\* has deleted, has just been refused
C4_RefreshAfterLogout ==
  /\ last.op = "refresh" /\ last.revoked /\ last.tok \in issued
  /\ last.status = "401"

C6_RefreshSucceedsOnlyLive ==
  (last.op = "refresh" /\ last.status = "200") =>
    \E r \in auth_refresh_token :
       /\ r.refresh_token = last.tok.claims.refresh_token
       /\ r.expiration_time >= last.checked_at
       /\ last.new.claims.refresh_token = r.refresh_token
       /\ last.new.claims.user_id = r.user_id
       /\ last.new.claims.access_token # last.tok.claims.access_token
       /\ last.new.claims.access_token \notin superseded
       /\ \E a \in AccessRows(r.id) : a.access_token = last.new.claims.access_token

\* a Refresh has just succeeded with a bearer token whose own exp had passed
C6_RefreshedExpiredAccess ==
  /\ last.op = "refresh" /\ last.status = "200"
  /\ last.tok.claims.exp + Leeway < last.checked_at

\* C7: a token the server minted for a user who exists is let through by
\* the auth middleware at every time before its exp, and the handler gets
\* the user's id.
C7_MintedAccepted ==
  (/\ last.op = "auth" /\ last.tok \in issued
   /\ \E u \in user : u.id = last.tok.claims.user_id
   /\ now < last.tok.claims.exp)
    => (last.status = "next" /\ last.user_id = last.tok.claims.user_id)

\* a minted token has just been let through some time after its issue
C7_AcceptedLater ==
  /\ last.op = "auth" /\ last.tok \in issued /\ last.status = "next"
  /\ last.tok.claims.iat < now /\ now < last.tok.claims.exp
  /\ last.user_id = last.tok.claims.user_id

\* C8: the auth middleware answers a correctly signed token whose exp has
\* passed with 401, never 422, and a token that is not well formed or not
\* signed with the secret with 422.
C8_ExpiredIs401 ==
  last.op = "auth" =>
    /\ (last.tok.wellformed /\ last.tok.sig = "HS512-secret"
          /\ last.tok.claims.exp < now) => last.status = "401"
    /\ (~last.tok.wellformed \/ last.tok.sig # "HS512-secret") => last.status = "422"

\* a minted token of an existing user, its exp passed by more than the
\* leeway, has just been answered 401
C8_ExpiredBeyondLeeway ==
  /\ last.op = "auth" /\ last.tok \in issued /\ last.status = "401"
  /\ last.tok.claims.exp + Leeway < now
  /\ \E u \in user : u.id = last.tok.claims.user_id

\* C9: the auth middleware lets through no token whose user_id has no user
\* row at the time of the request.
C9_UnknownUserRejected ==
  (last.op = "auth" /\ ~\E u \in user : u.id = last.tok.claims.user_id)
    => last.status # "next"

\* a minted, unexpired token of a user deleted since has just been refused
C9_DeletedUserRefused ==
  /\ last.op = "auth" /\ last.tok \in issued /\ last.status = "401"
  /\ now <= last.tok.claims.exp
  /\ ~\E u \in user : u.id = last.tok.claims.user_id

\* C10: a Login adds either one refresh-token row and one access-token row
\* referencing it, or no row; it answers 200 only when it added both; and a
\* Login whose credential check failed added none.
C10_LoginAllOrNothing ==
  last.op = "login" =>
    /\ \/ last.added_rt = {} /\ last.added_at = {}
       \/ /\ Cardinality(last.added_rt) = 1 /\ Cardinality(last.added_at) = 1
          /\ \A r \in last.added_rt, a \in last.added_at : a.refresh_token_id = r.id
    /\ last.status = "200" => (last.added_rt # {} /\ last.added_at # {})
    /\ ~last.cred_ok => (last.added_rt = {} /\ last.added_at = {} /\ last.status # "200")

\* a Login with good credentials has just failed at the second insert of
\* its transaction and has added no row
C10_LoginFailedClean ==
  /\ last.op = "login" /\ last.cred_ok /\ last.status # "200"
  /\ last.store = "err_second"
  /\ last.added_rt = {} /\ last.added_at = {}

\* C11: a Refresh that answers with a failure leaves the access-token rows
\* of its refresh token as they were when it found the refresh token.
C11_FailedRefreshKeepsRows ==
  (last.op = "refresh" /\ last.status # "200" /\ last.row_id # 0)
    => AccessRows(last.row_id) = last.at_before

\* the user rows a login with this identifier and password is meant to
\* match: by email when the identifier has an '@', by username otherwise
LoginMatches(ident, password) ==
  {u \in user :
     /\ IF \E i \in 1..Len(ident) : ident[i] = "@"
        THEN u.email = ident ELSE u.username = ident
     /\ u.password = hash_password(password)}

\* C12: a Login answers 200 exactly when a user row matches the identifier
\* and the password's hash; the token returned then carries that user's id
\* and a refresh-token row of that user with this token's value, its
\* expiration later than the time it was inserted, is in the store.
C12_LoginExactlyOnMatch ==
  last.op = "login" =>
    /\ last.status = "200" <=> LoginMatches(last.ident, last.password) # {}
    /\ last.status = "200" =>
         \E u \in LoginMatches(last.ident, last.password) :
            /\ last.new.claims.user_id = u.id
            /\ \E r \in auth_refresh_token :
                 /\ r.user_id = u.id
                 /\ r.refresh_token = last.new.claims.refresh_token
                 /\ r.expiration_time > last.checked_at
                 /\ last.checked_at >= 0

\* a Login by email has just succeeded while another user exists
C12_LoggedInByEmail ==
  /\ last.op = "login" /\ last.status = "200"
  /\ \E i \in 1..Len(last.ident) : last.ident[i] = "@"
  /\ Cardinality(user) = 2

(* ------------------------ C13..C16: share links ----------------------- *)

\* the Bearer token of a header authenticates: the auth middleware of the
\* protected router would let it through
BearerSucceeds(header) ==
  /\ header.scheme = "Bearer"
  /\ auth(header.tok, now) = "next"

\* the Basic credential of a header names a stored share link of a stored
\* album and carries the password of that link
BasicSucceeds(header) ==
  /\ header.scheme = "Basic"
  /\ \E l \in album_share_link :
       /\ l.uuid = header.uuid
       /\ \E a \in album : a.id = l.album_id
       /\ l.password = IF header.password = <<>> THEN None
                       ELSE Some(hash_link_password(header.password))

\* C13: the mixed-auth middleware lets a request through only if its Bearer
\* token authenticated, or it has no Bearer header and its share-link Basic
\* credential was accepted; every other request is answered 401.
C13_MixedAuthFailsClosed ==
  last.op = "mixed" =>
    /\ last.status \in {"next", "401"}
    /\ last.status = "next" <=>
         \/ BearerSucceeds(last.header)
         \/ last.header.scheme # "Bearer" /\ BasicSucceeds(last.header)
    /\ last.identity = "claims" <=> BearerSucceeds(last.header)
    /\ last.identity = "claims" => last.header.tok \in issued
    /\ last.status = "401" => last.identity = "none"

C13_ShareLinkLetThrough ==
  /\ last.op = "mixed" /\ last.status = "next"
  /\ last.identity = "shared_album_link"
  /\ issued # {}

\* C14: for a stored share link, share-link authentication accepts every
\* supplied password when the link has no password, and otherwise accepts
\* exactly when the hash of the supplied password is the stored one.
C14_OpenLinkTakesAnyPassword ==
  (last.op = "mixed" /\ last.header.scheme = "Basic") =>
    \A l \in album_share_link :
      (l.uuid = last.header.uuid /\ \E a \in album : a.id = l.album_id) =>
        IF ~l.password.some
        THEN last.status = "next"
        ELSE last.status = "next" <=>
               hash_link_password(last.header.password) = l.password.v

\* C15: a share-link credential whose link has an expiration before the
\* current time is rejected whatever password it carries.
C15_ExpiredLinkRejected ==
  (last.op = "mixed" /\ last.header.scheme = "Basic") =>
    \A l \in album_share_link :
      (l.uuid = last.header.uuid /\ l.expiration.some /\ l.expiration.v < now)
        => last.status = "401"

\* C16: a request carrying only a Basic share-link credential never reaches
\* a handler of the protected router, and only requests to the mixed router
\* run with a share-link identity.
C16_BasicNeverReachesProtected ==
  /\ (last.op = "protected" /\ last.header.scheme # "Bearer") => last.status # "next"
  /\ last.identity = "shared_album_link" => last.op = "mixed"

C16_ValidLinkRefusedByProtected ==
  /\ last.op = "protected" /\ last.header.scheme = "Basic"
  /\ BasicSucceeds(last.header)
  /\ last.status = "400"

(* -------------------------- C17..C20: scanner -------------------------- *)

\* C17: during a second scan of the same user, with the files unchanged and
\* nobody else writing, no Folder and no Media row is inserted: every lookup
\* finds the row of the first scan.
C17_SecondScanInsertsNothing ==
  \A r \in ScanIds :
    (scan[r].runs = 2 \/ (scan[r].runs = 1 /\ scan[r].pc # "done")) =>
      /\ scan[r].inserted = 0
      /\ scan[r].pc \notin {"insert", "minsert"}

C17_SecondScanOfMedia ==
  /\ scan["s1"].runs = 2
  /\ Cardinality(folder) >= 2
  /\ media # {}

\* C18: no two Folder rows share owner, parent and name, and no two Media
\* rows share owner, folder and file name, however the store calls of two
\* scans of the same user interleave.
C18_NoDuplicateRows ==
  /\ \A f, g \in folder :
       (f.owner_id = g.owner_id /\ f.parent = g.parent /\ f.name = g.name) => f = g
  /\ \A m, n \in media :
       (m.owner_id = n.owner_id /\ m.folder_id = n.folder_id
          /\ m.filename = n.filename) => m = n

\* the directories that directly hold a supported media file
MediaDirs == {d \in dirs : \E f \in files : f.dir = d /\ is_media_supported(f)}

\* the directories below the root on the way to a media-bearing directory
OnPath ==
  {p \in dirs : p # <<>> /\ \E d \in MediaDirs :
                   Len(p) <= Len(d) /\ SubSeq(d, 1, Len(p)) = p}

\* C19: after the first scan of a user without rows, every directory on the
\* way from the root to a media-bearing directory has exactly one Folder
\* row (parent null at the top level), every supported file has exactly one
\* Media row under the Folder of its directory, and there is no other
\* Media row.
C19_FreshScanMatchesTree ==
  (scan["s1"].runs = 1 /\ scan["s1"].pc = "done") =>
    /\ \A p \in OnPath :
         /\ Cardinality({f \in folder : FolderDir(f.id) = p}) = 1
         /\ Len(p) = 1 => \A f \in folder : FolderDir(f.id) = p => f.parent = 0
    /\ \A f \in folder : FolderDir(f.id) \in OnPath \cup {<<>>}
    /\ \A x \in files :
         is_media_supported(x) =>
           Cardinality({m \in media : m.filename = x.name
                                        /\ FolderDir(m.folder_id) = x.dir}) = 1
    /\ \A m \in media : \E x \in files :
         /\ is_media_supported(x)
         /\ m.filename = x.name /\ FolderDir(m.folder_id) = x.dir

\* C20: the discovery returns exactly the directories that directly hold a
\* supported media file, each once.
C20_DiscoversMediaDirs ==
  \A r \in ScanIds :
    scan[r].pc # "idle" =>
      /\ {scan[r].found[i] : i \in 1..Len(scan[r].found)} = MediaDirs
      /\ \A i, j \in 1..Len(scan[r].found) :
           scan[r].found[i] = scan[r].found[j] => i = j

(* ------------------------- C21..C22: scanner --------------------------- *)

\* C21: when one insert of a Folder or Media row has failed, the scan goes
\* on: at its end every discovered directory that does not lie at or below
\* the failed folder has its Folder row, and every supported file of a
\* directory with a Folder row, other than the failed file, has its Media row.
C21_FailedInsertIsSkipped ==
  \A r \in ScanIds :
    (scan[r].pc \in {"done", "panicked"} /\ scan[r].failed # NoFailure) =>
      /\ \A i \in 1..Len(scan[r].found) :
           LET d == scan[r].found[i]
               below == /\ scan[r].failed.kind = "folder"
                        /\ Len(scan[r].failed.dir) <= Len(d)
                        /\ SubSeq(d, 1, Len(scan[r].failed.dir)) = scan[r].failed.dir
           IN  ~below => \E f \in folder : FolderDir(f.id) = d
      /\ \A f \in folder, x \in files :
           (/\ is_media_supported(x)
            /\ x.dir = FolderDir(f.id)
            /\ ~(scan[r].failed.kind = "media" /\ scan[r].failed.dir = x.dir
                   /\ scan[r].failed.name = x.name))
             => \E m \in media : m.folder_id = f.id /\ m.filename = x.name

(* ------------------------------ C23: users ----------------------------- *)

\* C23: no two user rows share a username, and no two share an email,
\* however the uniqueness checks and inserts of signups interleave.
C23_UsersUnique ==
  \A u, v \in user :
    (u.username = v.username \/ u.email = v.email) => u = v

(* --------------------------- C27: sessions ------------------------------ *)

\* a step of routes::refresh_token: a slot enters, moves inside or leaves the
\* handler, or the handler answers at once
RefreshStep ==
  \/ \E p \in Procs : pc[p] # pc'[p] /\ (pc[p] \in RefreshLabels \/ pc'[p] \in RefreshLabels)
  \/ last = NoResp /\ last'.op = "refresh"

\* C27: Refresh leaves the refresh-token rows unchanged; a row's
\* expiration_time is set once, one hour after the row is created, and no
\* step changes it afterwards; hence a Refresh of a session whose check is
\* made after that time never succeeds, however many refreshes succeeded
\* before.
C27_RefreshKeepsExpiry ==
  /\ [][/\ RefreshStep => auth_refresh_token' = auth_refresh_token
        /\ \A r \in auth_refresh_token' \ auth_refresh_token :
              /\ r.expiration_time = now + RefreshTtl
              /\ \A q \in auth_refresh_token : q.id # r.id]_vars
  /\ []((last.op = "refresh" /\ last.status = "200") =>
          \A r \in RefreshRows(last.tok.claims.refresh_token) :
             r.expiration_time >= last.checked_at)

\* a session that was refreshed with success is refused a Refresh once the
\* hour of its refresh-token row has passed
C27_RefusedAfterTheHour ==
  /\ last.op = "refresh" /\ last.status = "401"
  /\ last.tok \in issued
  /\ Cardinality(IssuedAccessTokens(last.tok.claims.refresh_token)) >= 2
  /\ \E r \in RefreshRows(last.tok.claims.refresh_token) :
        r.expiration_time < now /\ r.expiration_time >= last.tok.claims.iat

(* --------------------------- C22: resolver ------------------------------ *)

\* a Folder table of three rows with any parent pointers, cycles included,
\* or the table a scan of a chain of MaxChain nested directories leaves
WalkTables ==
  {{NewFolder(i, IF i = 3 THEN o ELSE 1, "a", par[i]) : i \in 1..3} :
     par \in [1..3 -> 0..3], o \in {1, 2}}
  \cup {{NewFolder(i, 1, "a", i - 1) : i \in 1..MaxChain}}

\* no session, no request in progress, the clock at 0
IdleSession ==
  /\ now = 0
  /\ ticks = 0
  /\ auth_refresh_token = {}
  /\ auth_access_token = {}
  /\ mints = 0
  /\ issued = {}
  /\ pc = [p \in Procs |-> "idle"]
  /\ req = [p \in Procs |-> NoReq]
  /\ last = NoResp
  /\ superseded = {}
  /\ loggedOut = {}
  /\ raced = {}

\* two signed-up users
TwoUsers ==
  {[id |-> 1, username |-> StrAlice, email |-> StrAliceMail,
    password |-> hash_password(StrPw1)],
   [id |-> 2, username |-> StrBob, email |-> StrBobMail,
    password |-> hash_password(StrPw2)]}
SignedUp ==
  /\ user = TwoUsers
  /\ nextId = [t \in {"user", "rt", "at"} |-> IF t = "user" THEN 3 ELSE 1]

\* no gallery on disk and no scan running
NoGallery ==
  /\ dirs = {}
  /\ files = {}
  /\ scan = [r \in ScanIds |-> NoScan]

InitWalk ==
  /\ IdleSession
  /\ SignedUp
  /\ NoGallery
  /\ album = {}
  /\ album_share_link = {}
  /\ folder \in WalkTables
  /\ media = {}
  /\ walk = NoWalk
  /\ album_media = {}
  /\ login_states = {}
  /\ callbacks = NoCallbacks
  /\ call = NoCall
NextWalk ==
  \/ \E f \in folder : WalkStart(f.id, 1)
  \/ WalkStep
SpecWalk == InitWalk /\ [][NextWalk]_vars

\* C22: the ancestor-chain resolver follows at most 128 parent links,
\* whatever the Folder table holds, and then returns a failure.
C22_AtMost128Links == walk.links <= 128

(* ---------------------------- C24: signup ------------------------------- *)

NextCheck ==
  \E username \in TriedUsernames, email \in TriedEmails, password \in TriedPasswords :
    Check([username |-> username, email |-> email, password |-> password])
SpecCheck == Init /\ [][NextCheck]_vars

\* C24: NewUser::check accepts a signup exactly when the username has 5 to
\* 30 characters, starts with a letter and holds only lowercase latin
\* letters, digits and underscores, the email is valid, and the password has
\* 8 to 128 characters.
C24_CheckAcceptsExactly ==
  call.fn = "NewUser::check" =>
    LET username == call.arg.username
        password == call.arg.password
    IN  call.result =
          (/\ Len(username) >= 5 /\ Len(username) <= 30
           /\ username[1] \in LowerLetters
           /\ \A i \in 1..Len(username) :
                 username[i] \in LowerLetters \cup Digits \cup Underscore
           /\ is_email_valid(call.arg)
           /\ Len(password) >= 8 /\ Len(password) <= 128)

(* --------------------------- C25: base URL ------------------------------ *)

NextNormalise ==
  \E prefix \in TriedPrefixes, text \in TriedTexts : Normalise(prefix \o text)
SpecNormalise == Init /\ [][NextNormalise]_vars

\* the normal form of a path: its non-empty segments in their order, joined
\* by single slashes, between one leading and one trailing slash
NormalForm(path) ==
  LET segs == SelectSeq(split(path), LAMBDA seg : seg # <<>>)
  IN  IF Len(segs) = 0 THEN <<"/">> ELSE <<"/">> \o join(segs) \o <<"/">>

\* C25: for every parsable URL normalise_base_url returns the URL with its
\* path in normal form and scheme, host and port unchanged; applying it to
\* its own output changes nothing; an unparsable input yields None.
C25_NormalisesPath ==
  call.fn = "normalise_base_url" =>
    LET parsed == Url_parse(call.arg)
    IN  IF ~parsed.some THEN call.result = None
        ELSE /\ call.result.some
             /\ call.result.v.scheme = parsed.v.scheme
             /\ call.result.v.host = parsed.v.host
             /\ call.result.v.port = parsed.v.port
             /\ call.result.v.path = NormalForm(parsed.v.path)
             /\ normalise_base_url(as_str(call.result.v)) = call.result

(* ----------------------- C30: src/auth.rs guard ------------------------- *)

InitGuard ==
  /\ IdleSession
  /\ SignedUp
  /\ NoGallery
  /\ album = {}
  /\ album_share_link = {}
  /\ folder = {}
  /\ media = {}
  /\ walk = NoWalk
  /\ album_media = {}
  /\ login_states = {}
  /\ callbacks = NoCallbacks
  /\ call = NoCall
NextGuard ==
  \/ \E u \in user : GenerateToken(u.id)
  \/ \E tok \in Presentable : GuardRequest(tok)
  \/ \E d \in TickSteps : Tick(d)
  \/ Deliver
SpecGuard == InitGuard /\ [][NextGuard]_vars

\* C30: the request guard of src/auth.rs accepts a token produced by
\* generate_token for an existing user at every time from its issue until
\* its exp.
C30_GuardAcceptsUntilExp ==
  (/\ last.op = "guard"
   /\ last.tok \in issued
   /\ get_user_username(last.tok.claims.user_id)
   /\ last.tok.claims.iat <= last.checked_at
   /\ last.checked_at <= last.tok.claims.exp) => last.status = "200"

(* ------------------------ C26, C28: album media ------------------------- *)

\* two users, each with an album and a media of their own; the first album
\* has a share link, with or without a password; the second user has put
\* their media into their album
InitAlbum ==
  /\ IdleSession
  /\ SignedUp
  /\ NoGallery
  /\ album = {[id |-> 1, owner_id |-> 1], [id |-> 2, owner_id |-> 2]}
  /\ \E password \in {None, Some(StrPw1)} :
       album_share_link = {[uuid |-> 1, album_id |-> 1,
                            password |-> normalize_and_hash_password(password),
                            expiration |-> NoTime]}
  /\ folder = {NewFolder(1, 1, "", 0), NewFolder(2, 2, "", 0)}
  /\ media = {NewMedia(1, "f.jpg", 1, 1), NewMedia(2, "f.jpg", 2, 2)}
  /\ walk = NoWalk
  /\ album_media = {[id |-> 1, album_id |-> 2, media_id |-> 2]}
  /\ login_states = {}
  /\ callbacks = NoCallbacks
  /\ call = NoCall

\* the lists a request to add media can carry
AlbumAddMediaItems ==
  [album_uuid : {Uuid(1), Uuid(3)}, media_uuid : {Uuid(1), Uuid(2)}]
AlbumAddMediaLists == UNION {[1..n -> AlbumAddMediaItems] : n \in 1..MaxListLen}

NextAlbum ==
  \/ IssueFromOidc(1)
  \/ \E p \in Procs, tok \in issued \cup {NoToken}, list \in AlbumAddMediaLists :
       AlbumAddMediaStart(p, FALSE, tok, list)
  \/ \E p \in Procs : AlbumAddMediaLoop(p)
  \/ \E p \in Procs : AlbumAddMediaInsert(p)
  \/ \E header \in Headers, album_uuid \in {Uuid(1), Uuid(2), Uuid(3)} :
       GetAlbumStructure(header, album_uuid)
  \/ Deliver
SpecAlbum == InitAlbum /\ [][NextAlbum]_vars

\* C26: a request authenticated by a share link gets the media of an album
\* from get_album_structure only if the share link belongs to that album.
C26_ShareLinkStaysInItsAlbum ==
  (/\ last.op = "get_album_structure" /\ last.status = "200"
   /\ last.identity = "shared_album_link"
   /\ last.body # {}) =>
    \E l \in select_album_share_link_by_uuid(last.header.uuid) :
       l.album_id = last.album_id

\* C28: no two album_media rows have the same (album_id, media_id).
C28_NoDuplicatePairs ==
  \A r1, r2 \in album_media :
     (r1.album_id = r2.album_id /\ r1.media_id = r2.media_id) => r1 = r2

(* ---------------------------- C29: OIDC state --------------------------- *)

\* logins and callbacks that interleave, while time passes
NextOidc ==
  \/ \E provider \in OidcProviders : OidcLogin(provider)
  \/ \E p \in Procs, provider \in OidcProviders, state \in 1..MaxLogins :
       OidcCallbackRemove(p, FALSE, provider, state)
  \/ \E p \in Procs : OidcCallbackValidate(p)
  \/ \E d \in TickSteps : Tick(d)
  \/ Deliver
SpecOidc == Init /\ [][NextOidc]_vars

\* C29: each CSRF state is taken out of login_states by at most one
\* callback, at most one callback presenting it gets past state validation,
\* and once a callback has taken it (be it then refused for its provider or
\* its age) the state is no longer stored.
C29_StateIsSingleUse ==
  /\ \A st \in 1..MaxLogins :
       /\ callbacks[st].removed <= 1
       /\ callbacks[st].passed <= callbacks[st].removed
       /\ callbacks[st].removed = 1 => \A l \in login_states : l.state # st
  /\ last.op = "oidc_callback" => \A l \in login_states : l.state # last.state

\* a callback is refused with a state that a concurrent callback, still
\* before its own validation, has taken out of the map
C29_ReplayRefused ==
  /\ last.op = "oidc_callback" /\ last.status = "400"
  /\ callbacks[last.state].removed = 1
  /\ callbacks[last.state].passed = 0
  /\ \E p \in Procs : pc[p] = "cb_validate" /\ req[p].state = last.state
====
